---- MODULE Spec2Model ----
(***************************************************************************)
(* Model of the response parsing layer of pumapy (src/src/pumapy/ppms.py,  *)
(* src/src/pumapy/booking.py) and of the legacy resources it relies on     *)
(* (src/resources/Objects.py, src/resources/Common.py).                    *)
(*                                                                         *)
(* Python strings are sequences of one-character strings.  Python's True,  *)
(* False and None are the one-element sequences PyTrue, PyFalse and PyNone *)
(* whose single element is longer than one character, so that they can be  *)
(* compared with strings and never equal one.                              *)
(*                                                                         *)
(* A sequence built by a function constructor is concatenated with <<>>,   *)
(* which makes TLC store it as a tuple instead of re-evaluating it at      *)
(* every application.                                                      *)
(***************************************************************************)
EXTENDS Integers, Sequences, FiniteSets, TLC

VARIABLES
    \* ---- Quoting Repair (get_systems / get_running_sheet, first lines) ----
    qr_fields,      \* the fields the server put on the data line
    response_text,  \* response.text of the request
    repaired,       \* the texts obtained by applying the repair 1, 2, .. times
    qr_split,       \* TRUE once the rows of the repaired text were split
    qr_values,      \* per data line, its values after split('","') and trimming
    \* ---- dict_from_single_response / get_group ----
    sr_header,      \* the field names the server put on the header line
    sr_data,        \* the fields the server put on the data line
    sr_nlines,      \* the number of lines of the response
    sr_text,        \* the argument text (response.text in get_group)
    graceful,       \* the argument graceful
    sr_outcome,     \* "pending", "returned", "ValueError", "ConnectionError"
    parsed,         \* the dict returned (the empty function: nothing returned)
    \* ---- __get_ppms_user_with_fullname ----
    lk_users,       \* the users obtained from self.get_users()
    user_fullname,  \* the argument user_fullname
    lk_called,      \* TRUE once the lookup has returned
    lk_user,        \* the user returned (NoneUser: None)
    \* ---- get_running_sheet ----
    rs_rows,        \* the bookings the server reports for the day
    rs_text,        \* response.text of the getrunningsheet request
    date,           \* the argument date
    vamp_only,      \* the argument vamp_only
    mysql_connection, \* self.mysql_connection: PyNone or a connection
    db_users,       \* the rows of the table `users` behind the connection
    systems,        \* self.systems, the cached list of systems
    rs_users,       \* the users obtained from self.get_users()
    rs_outcome,     \* "pending", "returned" or the exception raised
    rs_passes,      \* the passes of the loop over the data lines that began
    reservation_array, \* the list returned
    \* ---- PpmsBooking.from_runningsheet ----
    bk_entry,       \* the argument entry, one parsed row of the running sheet
    bk_system_id,   \* the argument system_id
    bk_username,    \* the argument username
    bk_date,        \* the argument date
    bk_outcome,     \* "pending", "returned" or the exception raised
    bk_booking,     \* the PpmsBooking returned (NoneBooking: nothing returned)
    \* ---- PpmsBooking.from_booking_request ----
    bq_offset,      \* the minutes the server put on the second line
    bq_nlines,      \* the number of lines of the response
    bq_text,        \* the argument text
    booking_type,   \* the argument booking_type
    bq_system_id,   \* the argument system_id
    bq_now,         \* datetime.now() as read by time_rel_to_abs
    bq_later,       \* datetime.now() as read at booking.py:88
    bq_outcome,     \* "pending", "returned" or the exception raised
    bq_booking,     \* the PpmsBooking returned (NoneBooking: nothing returned)
    \* ---- PpmsConnection: the constructor and request ----
    cn_auth,        \* what the server answers to the auth request
    cn_status,      \* the HTTP status code of that answer
    cn_object,      \* "pending", "constructed" or the exception raised
    cn_answer,      \* what the server answered to the last request
    cn_calls,       \* the calls of request made on the object
    cn_posts,       \* the requests posted by those calls
    cn_outcome,     \* of the last call: "none", "returned" or the exception
    cn_response,    \* the response the last call returned
    \* ---- the machine catalogue of a system (get_systems) ----
    mc_name,        \* the name of the system as PPMS reports it
    mc_done,        \* TRUE once get_systems has built the system
    mc_system,      \* the system built (NoneSystem: none yet)
    \* ---- get_bookable_ids ----
    bi_systems,     \* the systems obtained from self.get_systems()
    localisation,   \* the argument localisation
    name_contains,  \* the argument name_contains
    bi_done,        \* TRUE once get_bookable_ids has returned
    system_ids,     \* the list returned
    \* ---- get_user_experience ----
    xp_rows,        \* the data lines of the server, each a list of fields
    xp_text,        \* response.text of the getuserexp request
    xp_outcome,     \* "pending", "returned" or the exception raised
    experience_array,\* the list returned
    us_username,      \* User(...): the argument username
    us_fullname,      \* User(...): the argument fullname
    us_login,         \* getuser: the login the server reports
    us_first,         \* getuser: the first name the server reports
    us_last,          \* getuser: the last name the server reports
    us_text,          \* getuser: response.text
    us_call,          \* "", "User" or "get_ppms_user"
    us_outcome,       \* "pending", "constructed", "returned" or the exception
    us_user,          \* the User object, NoneUser while there is none
    us_read,          \* the property read last, "" before the first read
    us_value,         \* the value that read gave
    gs_systems,       \* self.systems of the connection, NoneSystems while unset
    use_cached,       \* the argument of the last call of get_systems
    gs_calls,         \* the calls of get_systems made so far
    gs_requests,      \* the getsystems requests sent so far
    gs_answer,        \* the text of the last getsystems response
    gs_outcome,       \* "pending", "returned" or the exception of the last call
    gs_returned,      \* the list the last call returned
    lock_file,        \* the content of the lock file, NoFile while it is absent
    lock_dir_writable, \* the directory lets the processes add and remove files
    lp_pc,            \* each process: the place it has reached
    lock_pid,         \* each process: the PID it read from the lock file
    lp_running,       \* each process: what is_process_running gave
    lp_created,       \* each process: how create_lock_file ended
    jobs,             \* the rows of the table jobs, in the order of insertion
    jobs_auto_increment, \* the id the next inserted row gets
    jobs_now,         \* NOW() of the database
    jobs_call,        \* the last call: its name and arguments
    identifier        \* what the last job_start returned

repairVars == <<qr_fields, response_text, repaired, qr_split, qr_values>>

singleVars == <<sr_header, sr_data, sr_nlines, sr_text, graceful, sr_outcome,
                parsed>>

lookupVars == <<lk_users, user_fullname, lk_called, lk_user>>

sheetVars == <<rs_rows, rs_text, date, vamp_only, mysql_connection, db_users,
               systems, rs_users, rs_outcome, rs_passes, reservation_array>>

bookingVars == <<bk_entry, bk_system_id, bk_username, bk_date, bk_outcome,
                 bk_booking>>

requestVars == <<bq_offset, bq_nlines, bq_text, booking_type, bq_system_id,
                 bq_now, bq_later, bq_outcome, bq_booking>>

connectionVars == <<cn_auth, cn_status, cn_object, cn_answer, cn_calls,
                    cn_posts, cn_outcome, cn_response>>

catalogueVars == <<mc_name, mc_done, mc_system>>

bookableVars == <<bi_systems, localisation, name_contains, bi_done,
                  system_ids>>

experienceVars == <<xp_rows, xp_text, xp_outcome, experience_array>>

userVars == <<us_username, us_fullname, us_login, us_first, us_last, us_text,
              us_call, us_outcome, us_user, us_read, us_value>>

systemsVars == <<gs_systems, use_cached, gs_calls, gs_requests, gs_answer,
                 gs_outcome, gs_returned>>

lockVars == <<lock_file, lock_dir_writable, lp_pc, lock_pid, lp_running,
              lp_created>>

jobsVars == <<jobs, jobs_auto_increment, jobs_now, jobs_call, identifier>>

vars == <<repairVars, singleVars, lookupVars, sheetVars, bookingVars,
          requestVars, connectionVars, catalogueVars, bookableVars,
          experienceVars, userVars, systemsVars, lockVars, jobsVars>>

notRepairVars == <<singleVars, lookupVars, sheetVars, bookingVars,
                   requestVars, connectionVars, catalogueVars, bookableVars,
                   experienceVars, userVars, systemsVars, lockVars, jobsVars>>

notSingleVars == <<repairVars, lookupVars, sheetVars, bookingVars,
                   requestVars, connectionVars, catalogueVars, bookableVars,
                   experienceVars, userVars, systemsVars, lockVars, jobsVars>>

notLookupVars == <<repairVars, singleVars, sheetVars, bookingVars,
                   requestVars, connectionVars, catalogueVars, bookableVars,
                   experienceVars, userVars, systemsVars, lockVars, jobsVars>>

notSheetVars == <<repairVars, singleVars, lookupVars, bookingVars,
                  requestVars, connectionVars, catalogueVars, bookableVars,
                  experienceVars, userVars, systemsVars, lockVars, jobsVars>>

notBookingVars == <<repairVars, singleVars, lookupVars, sheetVars,
                    requestVars, connectionVars, catalogueVars, bookableVars,
                    experienceVars, userVars, systemsVars, lockVars,
                    jobsVars>>

notRequestVars == <<repairVars, singleVars, lookupVars, sheetVars,
                    bookingVars, connectionVars, catalogueVars, bookableVars,
                    experienceVars, userVars, systemsVars, lockVars,
                    jobsVars>>

notConnectionVars == <<repairVars, singleVars, lookupVars, sheetVars,
                       bookingVars, requestVars, catalogueVars, bookableVars,
                       experienceVars, userVars, systemsVars, lockVars,
                       jobsVars>>

notCatalogueVars == <<repairVars, singleVars, lookupVars, sheetVars,
                      bookingVars, requestVars, connectionVars, bookableVars,
                      experienceVars, userVars, systemsVars, lockVars,
                      jobsVars>>

notBookableVars == <<repairVars, singleVars, lookupVars, sheetVars,
                     bookingVars, requestVars, connectionVars, catalogueVars,
                     experienceVars, userVars, systemsVars, lockVars,
                     jobsVars>>

notExperienceVars == <<repairVars, singleVars, lookupVars, sheetVars,
                       bookingVars, requestVars, connectionVars,
                       catalogueVars, bookableVars, userVars, systemsVars,
                       lockVars, jobsVars>>

notUserVars == <<repairVars, singleVars, lookupVars, sheetVars, bookingVars,
                 requestVars, connectionVars, catalogueVars, bookableVars,
                 experienceVars, systemsVars, lockVars, jobsVars>>

notSystemsVars == <<repairVars, singleVars, lookupVars, sheetVars,
                    bookingVars, requestVars, connectionVars, catalogueVars,
                    bookableVars, experienceVars, userVars, lockVars,
                    jobsVars>>

notLockVars == <<repairVars, singleVars, lookupVars, sheetVars, bookingVars,
                 requestVars, connectionVars, catalogueVars, bookableVars,
                 experienceVars, userVars, systemsVars, jobsVars>>

notJobsVars == <<repairVars, singleVars, lookupVars, sheetVars, bookingVars,
                 requestVars, connectionVars, catalogueVars, bookableVars,
                 experienceVars, userVars, systemsVars, lockVars>>

(***************************************************************************)
(* Python values and string primitives                                     *)
(***************************************************************************)
PyTrue  == <<"<True>">>
PyFalse == <<"<False>">>
PyNone  == <<"<None>">>

DQ == "\""
LF == "\n"
CR == "\r"

Digits == {"0", "1", "2", "3", "4", "5", "6", "7", "8", "9"}

IsDigit(c) == c \in Digits

UpperLetters == <<"A","B","C","D","E","F","G","H","I","J","K","L","M",
                  "N","O","P","Q","R","S","T","U","V","W","X","Y","Z">>
LowerLetters == <<"a","b","c","d","e","f","g","h","i","j","k","l","m",
                  "n","o","p","q","r","s","t","u","v","w","x","y","z">>

UpperSet == {UpperLetters[i] : i \in 1..Len(UpperLetters)}

\* the lower-case letter of each upper-case letter
LowerOf ==
    (UpperLetters[1] :> LowerLetters[1]) @@
    [c \in UpperSet |->
        LowerLetters[CHOOSE i \in 1..Len(UpperLetters) : UpperLetters[i] = c]]

\* str.lower() on one character
LowerChar(c) ==
    IF c \in UpperSet THEN LowerOf[c] ELSE c

\* str.lower()
Lower(s) == [i \in 1..Len(s) |-> LowerChar(s[i])] \o <<>>

\* s[i:].startswith(p), i counted from 1
HasPrefixAt(s, i, p) ==
    /\ i + Len(p) - 1 <= Len(s)
    /\ \A k \in 1..Len(p) : s[i + k - 1] = p[k]

\* p in s
Contains(s, p) == \E i \in 1..(Len(s) + 1) : HasPrefixAt(s, i, p)

RECURSIVE Concat(_)
\* ''.join(parts)
Concat(parts) ==
    IF parts = <<>> THEN <<>> ELSE Head(parts) \o Concat(Tail(parts))

RECURSIVE Join(_, _)
\* sep.join(parts)
Join(parts, sep) ==
    IF parts = <<>> THEN <<>>
    ELSE IF Len(parts) = 1 THEN parts[1]
    ELSE parts[1] \o sep \o Join(Tail(parts), sep)

\* the k-th smallest element of a finite set of numbers
Kth(S, k) == CHOOSE x \in S : Cardinality({y \in S : y < x}) = k - 1

\* the last characters of the line breaks of s: \n, or \r not before \n
LineBreakEnds(s) ==
    {e \in 1..Len(s) : \/ s[e] = LF
                       \/ (s[e] = CR /\ ~(e < Len(s) /\ s[e + 1] = LF))}

\* the first character of the line break that ends at e (\r\n is one break)
LineBreakStart(s, e) ==
    IF s[e] = LF /\ e > 1 /\ s[e - 1] = CR THEN e - 1 ELSE e

\* str.splitlines(): line breaks are \n, \r and \r\n; no empty last line
SplitLines(s) ==
    LET ends  == LineBreakEnds(s)
        m     == Cardinality(ends)
        count == IF m = 0 THEN (IF s = <<>> THEN 0 ELSE 1)
                 ELSE IF Kth(ends, m) < Len(s) THEN m + 1 ELSE m
    IN  [k \in 1..count |->
            SubSeq(s,
                   IF k = 1 THEN 1 ELSE Kth(ends, k - 1) + 1,
                   IF k <= m THEN LineBreakStart(s, Kth(ends, k)) - 1
                   ELSE Len(s))] \o <<>>

RECURSIVE IsMatch(_, _, _)
\* re finds matches from left to right and they do not overlap: of the
\* candidates (cand: the starts, last[p]: the last index of the candidate
\* that starts at p) the one at p is a match unless an earlier match covers p
IsMatch(cand, last, p) ==
    /\ p \in cand
    /\ \A q \in cand : (q < p /\ last[q] >= p) => ~IsMatch(cand, last, q)

MatchStarts(cand, last) == {p \in cand : IsMatch(cand, last, p)}

\* str.split(sep) for a non-empty separator
Split(s, sep) ==
    LET cand   == {p \in 1..Len(s) : HasPrefixAt(s, p, sep)}
        last   == [p \in 1..Len(s) |-> p + Len(sep) - 1]
        starts == MatchStarts(cand, last)
        m      == Cardinality(starts)
    IN  [k \in 1..(m + 1) |->
            SubSeq(s,
                   IF k = 1 THEN 1 ELSE Kth(starts, k - 1) + Len(sep),
                   IF k <= m THEN Kth(starts, k) - 1 ELSE Len(s))] \o <<>>

RECURSIVE StripLeft(_, _)
StripLeft(s, chars) ==
    IF s /= <<>> /\ Head(s) \in chars THEN StripLeft(Tail(s), chars) ELSE s

RECURSIVE StripRight(_, _)
StripRight(s, chars) ==
    IF s /= <<>> /\ s[Len(s)] \in chars
    THEN StripRight(SubSeq(s, 1, Len(s) - 1), chars) ELSE s

\* str.strip(chars)
Strip(s, chars) == StripRight(StripLeft(s, chars), chars)

Whitespace == {" ", "\t", LF, CR}

(***************************************************************************)
(* Quoting Repair: the five re.sub calls of get_systems/get_running_sheet  *)
(***************************************************************************)
\* s with a double quote inserted after each position of the set after
\* (0: before the first character)
WithQuotesAfter(s, after) ==
    LET quoteAt == {q + Cardinality({r \in after : r <= q}) : q \in after}
    IN  [x \in 1..(Len(s) + Cardinality(after)) |->
            IF x \in quoteAt THEN DQ
            ELSE s[x - Cardinality({y \in quoteAt : y < x})]] \o <<>>

\* re.sub(',' + word, ',"' + Word + '"', s, flags=re.IGNORECASE): every
\* comma followed by the word in any letter case
SubQuotedWord(word, s) ==
    LET ls     == Lower(s)
        pat    == <<",">> \o Lower(word)
        cand   == {p \in 1..Len(s) : ls[p] = "," /\ HasPrefixAt(ls, p, pat)}
        last   == [p \in 1..Len(s) |-> p + Len(word)]
        starts == MatchStarts(cand, last)
        t      == [i \in 1..Len(s) |->
                     IF \E p \in starts : p < i /\ i <= p + Len(word)
                     THEN word[i - CHOOSE p \in starts :
                                        p < i /\ i <= p + Len(word)]
                     ELSE s[i]] \o <<>>
    IN  WithQuotesAfter(t, starts \cup {p + Len(word) : p \in starts})

\* the last index of the longest run of digits starting at i (i-1: no digit)
DigitRunEnd(s, i) ==
    IF i > Len(s) \/ ~IsDigit(s[i]) THEN i - 1
    ELSE CHOOSE j \in i..Len(s) :
            /\ \A k \in i..j : IsDigit(s[k])
            /\ (j = Len(s) \/ ~IsDigit(s[j + 1]))

\* re.sub(r',(\d+),', r',"\g<1>",', s): a comma, digits, a comma
SubInnerNumber(s) ==
    LET cand   == {p \in 1..Len(s) :
                     /\ s[p] = ","
                     /\ DigitRunEnd(s, p + 1) >= p + 1
                     /\ DigitRunEnd(s, p + 1) + 1 <= Len(s)
                     /\ s[DigitRunEnd(s, p + 1) + 1] = ","}
        last   == [p \in 1..Len(s) |-> DigitRunEnd(s, p + 1) + 1]
        starts == MatchStarts(cand, last)
    IN  WithQuotesAfter(s, starts \cup {last[p] - 1 : p \in starts})

\* re.sub(r'^(\d+),', r'"\g<1>",', s, flags=re.M): ^ is the start of the
\* text or the position after a \n
SubLeadingNumber(s) ==
    LET cand   == {p \in 1..Len(s) :
                     /\ (p = 1 \/ s[p - 1] = LF)
                     /\ DigitRunEnd(s, p) >= p
                     /\ DigitRunEnd(s, p) + 1 <= Len(s)
                     /\ s[DigitRunEnd(s, p) + 1] = ","}
        last   == [p \in 1..Len(s) |-> DigitRunEnd(s, p) + 1]
        starts == MatchStarts(cand, last)
    IN  WithQuotesAfter(s, {p - 1 : p \in starts}
                               \cup {last[p] - 1 : p \in starts})

\* re.sub(r',(\d+)$', r',"\g<1>"', s, flags=re.M): $ is the end of the text
\* or the position before a \n
SubTrailingNumber(s) ==
    LET cand   == {p \in 1..Len(s) :
                     /\ s[p] = ","
                     /\ DigitRunEnd(s, p + 1) >= p + 1
                     /\ (DigitRunEnd(s, p + 1) = Len(s)
                            \/ s[DigitRunEnd(s, p + 1) + 1] = LF)}
        last   == [p \in 1..Len(s) |-> DigitRunEnd(s, p + 1)]
        starts == MatchStarts(cand, last)
    IN  WithQuotesAfter(s, starts \cup {last[p] : p \in starts})

\* ppms.py:829-838 (and 505-512)
QuotingRepair(s) ==
    LET t1 == SubQuotedWord(<<"F","a","l","s","e">>, s)
        t2 == SubQuotedWord(<<"T","r","u","e">>, t1)
        t3 == SubInnerNumber(t2)
        t4 == SubLeadingNumber(t3)
    IN  SubTrailingNumber(t4)

\* line.split('","'), then values[0] = values[0][1:], values[-1] = values[-1][:-1]
SplitRow(line) ==
    LET v == Split(line, <<DQ, ",", DQ>>)
        n == Len(v)
    IN  [i \in 1..n |->
            LET a == IF i = 1 THEN SubSeq(v[i], 2, Len(v[i])) ELSE v[i]
            IN  IF i = n THEN SubSeq(a, 1, Len(a) - 1) ELSE a] \o <<>>

(***************************************************************************)
(* Specification SpecRepair: the Quoting Repair applied to a response of   *)
(* one header line and one data line, then the row split of the loops at   *)
(* ppms.py:516-520 and ppms.py:847-851.                                    *)
(***************************************************************************)
MaxFields == 4
MaxPasses == 2

QuotedContents == { <<"a">>, <<"a", ",", "b">> }
BareBooleans   == { <<"t","r","u","e">>, <<"F","A","L","S","E">> }
BareNumbers    == { <<"4","2">> }

\* the fields the server emits: quoted strings, bare booleans, bare integers
ServerFields ==
    [kind : {"quoted"}, content : QuotedContents]
        \cup [kind : {"boolean"}, content : BareBooleans]
        \cup [kind : {"number"}, content : BareNumbers]

\* a field as it appears on the wire
Wire(f) == IF f.kind = "quoted" THEN <<DQ>> \o f.content \o <<DQ>> ELSE f.content

WireLine(fields) == Join([i \in 1..Len(fields) |-> Wire(fields[i])], <<",">>)

HeaderNames == << <<"a">>, <<"b">>, <<"c">>, <<"d">>, <<"e">> >>

HeaderLine(n) == Join(SubSeq(HeaderNames, 1, n), <<",">>)

LineEnds == { <<LF>>, <<CR, LF>> }

FieldLists == UNION { [1..n -> ServerFields] : n \in 1..MaxFields }

RepairInit ==
    /\ qr_fields \in FieldLists
    /\ \E eol \in LineEnds, terminated \in BOOLEAN :
          response_text = HeaderLine(Len(qr_fields)) \o eol \o WireLine(qr_fields)
                              \o (IF terminated THEN eol ELSE <<>>)
    /\ repaired = <<>>
    /\ qr_split = FALSE
    /\ qr_values = <<>>

RepairIdle ==
    /\ qr_fields = <<>>
    /\ response_text = <<>>
    /\ repaired = <<>>
    /\ qr_split = FALSE
    /\ qr_values = <<>>

\* ppms.py:505-512 / ppms.py:829-838, applied to the text obtained so far
ApplyRepair ==
    /\ Len(repaired) < MaxPasses
    /\ repaired' = Append(repaired,
                     QuotingRepair(IF repaired = <<>> THEN response_text
                                   ELSE repaired[Len(repaired)]))
    /\ UNCHANGED <<qr_fields, response_text, qr_split, qr_values>>
    /\ UNCHANGED notRepairVars

\* ppms.py:516-520 / ppms.py:847-851 on the text repaired once
SplitRows ==
    /\ repaired /= <<>>
    /\ ~qr_split
    /\ qr_split' = TRUE
    /\ qr_values' = LET lines == SplitLines(repaired[1])
                    IN  [i \in 1..(Len(lines) - 1) |-> SplitRow(lines[i + 1])]
    /\ UNCHANGED <<qr_fields, response_text, repaired>>
    /\ UNCHANGED notRepairVars

RepairNext == ApplyRepair \/ SplitRows

(***************************************************************************)
(* dict_from_single_response (ppms.py:54-115) and get_group                *)
(***************************************************************************)
Min(a, b) == IF a <= b THEN a ELSE b

\* the quotes stripped, true and false left as strings
ProcessResponseValue_NoBooleans(v) == Strip(v, {DQ})

\* ppms.py:47-52, one element of the list
ProcessResponseValue(v) ==
    LET stripped == Strip(v, {DQ})
    IN  IF stripped = <<"t","r","u","e">> THEN PyTrue
        ELSE IF stripped = <<"f","a","l","s","e">> THEN PyFalse
        ELSE stripped

\* process_response_values
ProcessResponseValues(values) ==
    [i \in 1..Len(values) |-> ProcessResponseValue(values[i])]

\* dict(zip(header, data)): zip stops at the shorter list, a later pair
\* with the same key replaces the earlier one
DictFromZip(header, data) ==
    LET n == Min(Len(header), Len(data))
    IN  [k \in {header[i] : i \in 1..n} |->
            data[CHOOSE i \in 1..n :
                    /\ header[i] = k
                    /\ \A j \in 1..n : header[j] = k => j <= i]]

NoDict == <<>>

\* ppms.py:87-90
LineCountRaises(lines, strict) == Len(lines) /= 2 /\ strict

\* the check of ppms.py:98 dropped: a mismatch is accepted in strict mode too
FieldCountRaises_Never(header, data, strict) == FALSE

\* the check of ppms.py:98 without its condition: a mismatch always raises
FieldCountRaises_Always(header, data, strict) == Len(header) /= Len(data)

\* ppms.py:94-99
FieldCountRaises(header, data, strict) == Len(header) /= Len(data) /\ strict

\* ppms.py:100-106
TruncatedHeader(header, data) ==
    LET minimum == Min(Len(header), Len(data))
    IN  IF Len(header) /= Len(data) /\ minimum < Len(header)
        THEN SubSeq(header, 1, minimum) ELSE header

\* ppms.py:100-106
TruncatedData(header, data) ==
    LET minimum == Min(Len(header), Len(data))
    IN  IF Len(header) /= Len(data) /\ ~(minimum < Len(header))
        THEN SubSeq(data, 1, minimum) ELSE data

\* the outcome and the value of dict_from_single_response(text, graceful)
DictFromSingleResponse(text, gracefulArg) ==
    LET lines == SplitLines(text)
        raise == [outcome |-> "ValueError", parsed |-> NoDict]
    IN  IF LineCountRaises(lines, ~gracefulArg) THEN raise
        \* lines[0] / lines[1]: IndexError, re-raised as ValueError (108-112)
        ELSE IF Len(lines) < 2 THEN raise
        ELSE LET header == Split(lines[1], <<",">>)
                 data   == ProcessResponseValues(Split(lines[2], <<",">>))
             IN  IF FieldCountRaises(header, data, ~gracefulArg) THEN raise
                 ELSE [outcome |-> "returned",
                       parsed  |-> DictFromZip(TruncatedHeader(header, data),
                                               TruncatedData(header, data))]

NotAuthorized ==
    <<"r","e","q","u","e","s","t"," ","n","o","t"," ",
      "a","u","t","h","o","r","i","z","e","d">>

\* ppms.py:217-220: the response makes request() raise ConnectionError
RequestRaises(text) == Contains(Lower(text), NotAuthorized)

(***************************************************************************)
(* Specification SpecSingle: calls of dict_from_single_response, directly  *)
(* in either mode and through get_group (graceful by default).             *)
(***************************************************************************)
MaxCols  == 3
MaxLines == 3

SingleNames  == { <<"k">>, <<"j">> }
SingleFields ==
    [kind : {"quoted"}, content : { <<"v">>, <<"f","a","l","s","e">> }]
        \cup [kind : {"bare"}, content : { <<"t","r","u","e">>, <<>> }]

NameLists   == UNION { [1..n -> SingleNames] : n \in 1..MaxCols }
SingleLists == UNION { [1..n -> SingleFields] : n \in 1..MaxCols }

\* the response: no line at all, or the header line followed by copies of
\* the data line, each line ended by \r\n (conftest.py:45-51)
SingleText(header, data, nlines) ==
    LET lines == [i \in 1..nlines |->
                    IF i = 1 THEN Join(header, <<",">>) ELSE WireLine(data)]
    IN  Concat([i \in 1..nlines |-> lines[i] \o <<CR, LF>>])

SingleInit ==
    /\ sr_header \in NameLists
    /\ sr_data \in SingleLists
    /\ sr_nlines \in 0..MaxLines
    /\ sr_text \in {SingleText(sr_header, sr_data, sr_nlines),
                    <<"R","e","q","u","e","s","t"," ","n","o","t"," ",
                      "a","u","t","h","o","r","i","z","e","d">>}
    /\ graceful \in BOOLEAN
    /\ sr_outcome = "pending"
    /\ parsed = NoDict

SingleIdle ==
    /\ sr_header = <<>>
    /\ sr_data = <<>>
    /\ sr_nlines = 0
    /\ sr_text = <<>>
    /\ graceful = TRUE
    /\ sr_outcome = "pending"
    /\ parsed = NoDict

\* a caller passes text and graceful to dict_from_single_response
CallDictFromSingleResponse ==
    /\ sr_outcome = "pending"
    /\ LET r == DictFromSingleResponse(sr_text, graceful)
       IN  /\ sr_outcome' = r.outcome
           /\ parsed' = r.parsed
    /\ UNCHANGED <<sr_header, sr_data, sr_nlines, sr_text, graceful>>
    /\ UNCHANGED notSingleVars

\* ppms.py:390-396: get_group parses response.text in the default mode
GetGroup ==
    /\ sr_outcome = "pending"
    /\ graceful = TRUE
    /\ IF RequestRaises(sr_text)
       THEN /\ sr_outcome' = "ConnectionError"
            /\ parsed' = NoDict
       ELSE LET r == DictFromSingleResponse(sr_text, TRUE)
            IN  /\ sr_outcome' = r.outcome
                /\ parsed' = r.parsed
    /\ UNCHANGED <<sr_header, sr_data, sr_nlines, sr_text, graceful>>
    /\ UNCHANGED notSingleVars

SingleNext == CallDictFromSingleResponse \/ GetGroup

(***************************************************************************)
(* Users (Objects.py:337-401) and the lookup by full name                  *)
(* (ppms.py:988-1013).  The lookup reads ppms_fullname and fullname of the *)
(* elements of self.get_users(), so these are modelled as User objects.    *)
(***************************************************************************)
\* '%s' % value
Str(value) ==
    IF value = PyNone THEN <<"N","o","n","e">>
    ELSE IF value = PyTrue THEN <<"T","r","u","e">>
    ELSE IF value = PyFalse THEN <<"F","a","l","s","e">>
    ELSE value

\* Objects.py:339-359: the fields the lookups read; username and fullname
\* are stored as u'%s' % value (Objects.py:351-352)
User(username, fullname, ppms_fullname) ==
    [username |-> Str(username), _fullname |-> Str(fullname),
     ppms_fullname |-> ppms_fullname]

\* Objects.py:365-370, the property fullname
Fullname(user) ==
    IF user._fullname = PyNone \/ user._fullname = <<>>
    THEN user.username ELSE user._fullname

\* the value None where a User is expected
NoneUser ==
    [username |-> PyNone, _fullname |-> PyNone, ppms_fullname |-> PyNone]

RECURSIVE GetPpmsUserWithFullnameFrom(_, _, _)
GetPpmsUserWithFullnameFrom(users, name, i) ==
    IF i > Len(users) THEN NoneUser
    ELSE LET user == users[i]
         IN  IF user.ppms_fullname /= PyNone
             THEN IF name = user.ppms_fullname THEN user
                  ELSE GetPpmsUserWithFullnameFrom(users, name, i + 1)
             ELSE IF Fullname(user) = name THEN user
                  ELSE GetPpmsUserWithFullnameFrom(users, name, i + 1)

\* ppms.py:999-1013
GetPpmsUserWithFullname(users, name) ==
    GetPpmsUserWithFullnameFrom(users, name, 1)

(***************************************************************************)
(* Specification SpecLookup: one lookup of a running-sheet User name in a  *)
(* list of known users, in every order of the list.                        *)
(***************************************************************************)
MaxUsers == 3

NameLF == <<"L", " ", "F">>
NameFL == <<"F", " ", "L">>
NameXY == <<"X", " ", "Y">>
NameBA == <<"B", " ", "A">>
NameAB == <<"A", " ", "B">>
NameQQ == <<"Q", " ", "Q">>

\* a user as get_ppms_user builds it (ppms.py:976-984), a user without
\* PPMS fields whose display name is "L F", a user with this display name
\* and another ppms_fullname, and an unrelated user
UserPool ==
    { User(<<"u","1">>, NameFL, NameLF),
      User(<<"u","2">>, NameLF, PyNone),
      User(<<"u","3">>, NameLF, NameXY),
      User(<<"u","4">>, NameAB, NameBA) }

SearchedNames == { NameLF, NameBA, NameQQ }

\* the lists of at most MaxUsers different users, in every order
UserLists ==
    UNION { { l \in [1..n -> UserPool] :
                \A i, j \in 1..n : l[i] = l[j] => i = j } : n \in 0..MaxUsers }

LookupInit ==
    /\ lk_users \in UserLists
    /\ user_fullname \in SearchedNames
    /\ lk_called = FALSE
    /\ lk_user = NoneUser

LookupIdle ==
    /\ lk_users = <<>>
    /\ user_fullname = <<>>
    /\ lk_called = FALSE
    /\ lk_user = NoneUser

\* ppms.py:988-1013
LookupUser ==
    /\ ~lk_called
    /\ lk_called' = TRUE
    /\ lk_user' = GetPpmsUserWithFullname(lk_users, user_fullname)
    /\ UNCHANGED <<lk_users, user_fullname>>
    /\ UNCHANGED notLookupVars

LookupNext == LookupUser

(***************************************************************************)
(* get_running_sheet (ppms.py:792-925) with the lookups it calls.          *)
(* The names the method takes from its environment are modelled as given:  *)
(* self.mysql_connection is None or an open connection, Common is          *)
(* resources/Common.py and Reservation is Objects.Reservation.             *)
(***************************************************************************)
\* ppms.py:631, the default of catalogue_names
CatalogueNames == << <<"N","a","b","o","o">>, <<"D","a","g","o","b","a","h">>, <<"T","a","t","o","o","i","n","e">>, <<"H","o","t","h">> >>

RECURSIVE GetMachineCatalogueFrom(_, _, _)
GetMachineCatalogueFrom(system_name, catalogue_names, i) ==
    IF i > Len(catalogue_names) THEN PyNone
    ELSE IF Contains(Lower(system_name), Lower(catalogue_names[i]))
         THEN catalogue_names[i]
    ELSE GetMachineCatalogueFrom(system_name, catalogue_names, i + 1)

\* the catalogue searched from its last name to its first
GetMachineCatalogueFromSystem_LastWins(system_name) ==
    GetMachineCatalogueFrom(system_name,
        [i \in 1..Len(CatalogueNames) |->
            CatalogueNames[Len(CatalogueNames) + 1 - i]], 1)

\* ppms.py:631-642
GetMachineCatalogueFromSystem(system_name) ==
    GetMachineCatalogueFrom(system_name, CatalogueNames, 1)

\* ppms.py:532-544: the fields of a system that get_running_sheet reads
System(system_id, name) ==
    [system_id |-> system_id, name |-> name,
     machine_catalogue |-> GetMachineCatalogueFromSystem(name)]

\* the value None where a system is expected
NoneSystem ==
    [system_id |-> PyNone, name |-> PyNone, machine_catalogue |-> PyNone]

RECURSIVE GetSystemWithNameFrom(_, _, _)
GetSystemWithNameFrom(systemList, system_name, i) ==
    IF i > Len(systemList) THEN NoneSystem
    ELSE IF system_name = systemList[i].name THEN systemList[i]
    ELSE GetSystemWithNameFrom(systemList, system_name, i + 1)

\* ppms.py:616-629, with get_systems() returning the cached list (492-494)
GetSystemWithName(systemList, system_name) ==
    GetSystemWithNameFrom(systemList, system_name, 1)

RECURSIVE GetUserFromFullnameFrom(_, _, _, _)
GetUserFromFullnameFrom(table, name, i, user) ==
    IF i > Len(table) THEN user
    ELSE IF table[i].fullname = name \/ table[i].ppms_fullname = name
         THEN GetUserFromFullnameFrom(table, name, i + 1,
                  User(table[i].username, table[i].fullname,
                       table[i].ppms_fullname))
    ELSE GetUserFromFullnameFrom(table, name, i + 1, user)

\* Common.py:490-523: the last row of the query result
GetUserFromFullname(table, name) ==
    GetUserFromFullnameFrom(table, name, 1, NoneUser)

\* Common.py:526-551: INSERT ... ON DUPLICATE KEY UPDATE on the key username
UpdateUser(table, user) ==
    LET row == [username |-> user.username, fullname |-> Str(Fullname(user)),
                ppms_fullname |-> Str(user.ppms_fullname)]
    IN  IF \E i \in 1..Len(table) : table[i].username = user.username
        THEN [i \in 1..Len(table) |->
                IF table[i].username = user.username THEN row ELSE table[i]]
        ELSE Append(table, row)

DigitChars == <<"0", "1", "2", "3", "4", "5", "6", "7", "8", "9">>

DigitValue(c) == (CHOOSE n \in 1..10 : DigitChars[n] = c) - 1

\* int(s) accepts s (here: a non-empty run of digits)
IsInt(s) == s /= <<>> /\ \A i \in 1..Len(s) : IsDigit(s[i])

RECURSIVE IntOf(_)
\* int(s)
IntOf(s) ==
    IF s = <<>> THEN 0
    ELSE 10 * IntOf(SubSeq(s, 1, Len(s) - 1)) + DigitValue(s[Len(s)])

\* a datetime: the day as a day number, and the time of day
Datetime(day, hour, minute, second, microsecond) ==
    [day |-> day, hour |-> hour, minute |-> minute, second |-> second,
     microsecond |-> microsecond]

\* the replace without second=0, microsecond=0
ReplaceTime_KeepSeconds(d, hour, minute) ==
    Datetime(d.day, hour, minute, d.second, d.microsecond)

\* datetime.replace(hour=.., minute=.., second=0, microsecond=0)
ReplaceTime(d, hour, minute) == Datetime(d.day, hour, minute, 0, 0)

\* d + timedelta(days=1)
AddOneDay(d) == [d EXCEPT !.day = d.day + 1]

\* ppms.py:891-911: int(t.split(':')[0]), int(t.split(':')[1]) and the
\* replace() of the date; error is the exception raised, "" if none
ClockOn(d, t) ==
    LET parts == Split(t, <<":">>)
        fail(e) == [error |-> e, at |-> d, hour |-> 0, minute |-> 0]
    IN  IF t \in {PyTrue, PyFalse} THEN fail("AttributeError")
        ELSE IF ~IsInt(parts[1]) THEN fail("ValueError")
        ELSE IF Len(parts) < 2 THEN fail("IndexError")
        ELSE IF ~IsInt(parts[2]) THEN fail("ValueError")
        ELSE IF IntOf(parts[1]) > 23 \/ IntOf(parts[2]) > 59
             THEN fail("ValueError")
        ELSE [error |-> "", at |-> ReplaceTime(d, IntOf(parts[1]), IntOf(parts[2])),
              hour |-> IntOf(parts[1]), minute |-> IntOf(parts[2])]

\* the end of the reservation left on the day of the call
RolledOver_Never(end) == end.at

\* ppms.py:913-916 on the end of the reservation
RolledOver(end) ==
    IF end.hour = 0 /\ end.minute = 0 THEN AddOneDay(end.at) ELSE end.at

\* Objects.py:412-420
Reservation(username, ppms_system, machine_catalogue, start, end) ==
    [username |-> username, ppms_system |-> ppms_system,
     machine_catalogue |-> machine_catalogue,
     reservation_start |-> start, reservation_end |-> end]

\* ppms.py:856-859
BooleanObject(v) ==
    IF v = <<"T","r","u","e">> THEN PyTrue ELSE IF v = <<"F","a","l","s","e">> THEN PyFalse ELSE v

KeyObject    == <<"O","b","j","e","c","t">>
KeyUser      == <<"U","s","e","r">>
KeyStartTime == <<"S","t","a","r","t"," ","t","i","m","e">>
KeyEndTime   == <<"E","n","d"," ","t","i","m","e">>

\* what one pass of the loop body does: step is "append" (the reservation
\* is appended), "continue" or "raise" (with the exception); db is the
\* table `users` afterwards
RowAppend(reservation, table) ==
    [step |-> "append", error |-> "", db |-> table, reservation |-> <<reservation>>]

RowContinue(table) ==
    [step |-> "continue", error |-> "", db |-> table, reservation |-> <<>>]

RowRaise(e, table) ==
    [step |-> "raise", error |-> e, db |-> table, reservation |-> <<>>]

\* booking[key] read as a time of day on the date d
ClockOfKey(d, booking, key) ==
    IF key \notin DOMAIN booking
    THEN [error |-> "KeyError", at |-> d, hour |-> 0, minute |-> 0]
    ELSE ClockOn(d, booking[key])

\* ppms.py:890-924 for the times start and end read from the row
RowReservation(user, system, start, end, table) ==
    IF start.error /= "" THEN RowRaise(start.error, table)
    ELSE IF end.error /= "" THEN RowRaise(end.error, table)
    ELSE IF user = NoneUser \/ system = NoneSystem
         THEN RowRaise("AttributeError", table)
    ELSE RowAppend(Reservation(user.username, system.system_id,
                               system.machine_catalogue, start.at,
                               RolledOver(end)),
                   table)

\* ppms.py:885-924 for the user found (NoneUser: none)
RowTimes(ctx, booking, system, user, table) ==
    RowReservation(user, system,
                   ClockOfKey(ctx.date, booking, KeyStartTime),
                   ClockOfKey(ctx.date, booking, KeyEndTime), table)

\* ppms.py:881-924 for the user that __get_ppms_user_with_fullname returned
RowPpmsUser(ctx, booking, system, user, table) ==
    IF user = NoneUser \/ ctx.mysql_connection = PyNone
    THEN RowTimes(ctx, booking, system, user, table)
    ELSE IF system = NoneSystem THEN RowRaise("AttributeError", table)
    ELSE RowTimes(ctx, booking, system, user,
                  IF system.machine_catalogue /= PyNone
                  THEN UpdateUser(table, user) ELSE table)

\* ppms.py:879-924 for the user that the database returned
RowDbUser(ctx, booking, system, dbuser, table) ==
    IF dbuser /= NoneUser THEN RowTimes(ctx, booking, system, dbuser, table)
    ELSE RowPpmsUser(ctx, booking, system,
                     GetPpmsUserWithFullname(ctx.users, booking[KeyUser]), table)

\* ppms.py:870-924 for the system that __get_system_with_name returned
RowSystem(ctx, booking, system, table) ==
    IF ctx.vamp_only /\ system = NoneSystem
    THEN RowRaise("AttributeError", table)
    ELSE IF ctx.vamp_only /\ system.machine_catalogue = PyNone
         THEN RowContinue(table)
    ELSE IF KeyUser \notin DOMAIN booking THEN RowRaise("KeyError", table)
    ELSE RowDbUser(ctx, booking, system,
                   IF ctx.mysql_connection /= PyNone
                   THEN GetUserFromFullname(table, booking[KeyUser])
                   ELSE NoneUser,
                   table)

\* ppms.py:863-924 for the dict booking
RowBooking(ctx, booking, table) ==
    IF KeyObject \notin DOMAIN booking THEN RowRaise("KeyError", table)
    ELSE RowSystem(ctx, booking,
                   GetSystemWithName(ctx.systems, booking[KeyObject]), table)

\* ppms.py:853-924 for the values of the line
RowValues(ctx, values, table) ==
    IF Len(values) < Len(ctx.headers) THEN RowRaise("IndexError", table)
    ELSE RowBooking(ctx,
                    DictFromZip(ctx.headers,
                        [i \in 1..Len(ctx.headers) |-> BooleanObject(values[i])]),
                    table)

\* ppms.py:847-924, one pass of the loop body
RunningSheetRow(ctx, line, table) == RowValues(ctx, SplitRow(line), table)

RECURSIVE RunningSheetRows(_, _, _, _)
RECURSIVE RunningSheetRowsAfter(_, _, _, _)
\* the reservation of a pass put in front of the earlier ones
RunningSheetRowsAfter_Prepend(ctx, i, array, r) ==
    IF r.step = "raise"
    THEN [outcome |-> r.error, reservation_array |-> <<>>, db |-> r.db,
          passes |-> i]
    ELSE RunningSheetRows(ctx, i + 1, r.reservation \o array, r.db)

\* ppms.py:846-925, the loop from line i on after the pass r of line i
RunningSheetRowsAfter(ctx, i, array, r) ==
    IF r.step = "raise"
    THEN [outcome |-> r.error, reservation_array |-> <<>>, db |-> r.db,
          passes |-> i]
    ELSE RunningSheetRows(ctx, i + 1, array \o r.reservation, r.db)

\* ppms.py:846-925, the loop over the data lines from line i on
RunningSheetRows(ctx, i, array, table) ==
    IF i > Len(ctx.lines)
    THEN [outcome |-> "returned", reservation_array |-> array, db |-> table,
          passes |-> Len(ctx.lines)]
    ELSE RunningSheetRowsAfter(ctx, i, array,
                               RunningSheetRow(ctx, ctx.lines[i], table))

\* the empty text raises instead of giving the empty list
NoBookings_Raises(table) ==
    [outcome |-> "IndexError", reservation_array |-> <<>>, db |-> table,
     passes |-> 0]

\* ppms.py:840-842, return [] before the loop
NoBookings(table) ==
    [outcome |-> "returned", reservation_array |-> <<>>, db |-> table,
     passes |-> 0]

\* ppms.py:803-925, after the request
GetRunningSheetResult(response, d, vampOnly, connection, table, sl, users) ==
    IF RequestRaises(response)
    THEN [outcome |-> "ConnectionError", reservation_array |-> <<>>,
          db |-> table, passes |-> 0]
    ELSE LET text == QuotingRepair(response)
         IN  IF text = <<>>
             THEN NoBookings(table)
             ELSE LET lines   == SplitLines(text)
                      split   == Split(lines[1], <<",">>)
                      headers == [i \in 1..Len(split) |->
                                     Strip(split[i], Whitespace)] \o <<>>
                  IN  RunningSheetRows(
                          [headers |-> headers, lines |-> Tail(lines),
                           date |-> d, vamp_only |-> vampOnly,
                           mysql_connection |-> connection,
                           systems |-> sl, users |-> users],
                          1, <<>>, table)

(***************************************************************************)
(* Specification SpecSheet: one call of get_running_sheet on a connection  *)
(* whose systems are cached, for the bookings the server reports.          *)
(***************************************************************************)
MaxRows == 2

SystemHoth == <<"H","o","t","h"," ","1">>
SystemLSM  == <<"L","S","M">>
SystemGone == <<"Z","e","i","s","s">>

NameDB == <<"D", " ", "B">>
NameNN == <<"N", " ", "N">>

\* conftest.py:270
SheetHeader ==
    <<"L","o","c","a","t","i","o","n",","," ","S","t","a","r","t"," ","t","i","m","e",","," ","E","n","d"," ","t","i","m","e",","," ","O","b","j","e","c","t",","," ","U","s","e","r",","," ","T","r","a","i","n","i","n","g",","," ","A","s","s","i","s","t","e","d">>

\* start and end as sent, with the hours and minutes they stand for
Clock(start, end, sh, sm, eh, em) ==
    [start |-> start, end |-> end, sh |-> sh, sm |-> sm, eh |-> eh, em |-> em]

EveningToMidnight == Clock(<<"2","2",":","0","0">>, <<"0","0",":","0","0">>, 22, 0, 0, 0)
MorningToLate     == Clock(<<"0","8",":","3","0">>, <<"2","3",":","5","9">>, 8, 30, 23, 59)
MidnightToHalf    == Clock(<<"0","0",":","0","0">>, <<"0","0",":","3","0">>, 0, 0, 0, 30)
MorningToNoon     == Clock(<<"0","9",":","1","5">>, <<"1","2",":","0","0">>, 9, 15, 12, 0)

Clocks == {EveningToMidnight, MorningToLate, MidnightToHalf, MorningToNoon}

Row(object, user, clock) == [object |-> object, user |-> user, clock |-> clock]

\* the rows of a day: every pairing of a system (in the catalogue, outside
\* it, unknown) with a user (known to PPMS, known to the database, unknown),
\* and every clock on a row that resolves
SheetRows ==
    { Row(SystemHoth, NameLF, c) : c \in Clocks }
        \cup { Row(SystemHoth, NameDB, MorningToLate),
               Row(SystemHoth, NameNN, EveningToMidnight),
               Row(SystemLSM,  NameLF, MidnightToHalf),
               Row(SystemLSM,  NameDB, EveningToMidnight),
               Row(SystemLSM,  NameNN, MorningToNoon),
               Row(SystemGone, NameLF, EveningToMidnight),
               Row(SystemGone, NameDB, MorningToNoon),
               Row(SystemGone, NameNN, MorningToLate) }

RowLists == UNION { [1..n -> SheetRows] : n \in 0..MaxRows }

Quoted(v) == <<DQ>> \o v \o <<DQ>>

\* conftest.py:271-272, one line of the running sheet
SheetLine(row) ==
    Join(<< Quoted(<<"R">>), Quoted(row.clock.start), Quoted(row.clock.end),
            Quoted(row.object), Quoted(row.user), Quoted(<<>>), Quoted(<<>>) >>,
         <<",">>) \o <<LF>>

SheetText(rows) ==
    SheetHeader \o <<LF>> \o Concat([i \in 1..Len(rows) |-> SheetLine(rows[i])])

KnownSystems ==
    << System(<<"3","1">>, SystemHoth), System(<<"3","2">>, SystemLSM) >>

KnownUsers ==
    << User(<<"a","b">>, NameAB, NameBA), User(<<"l","f">>, NameFL, NameLF) >>

Connected == <<"<mysql>">>

StoredUsers ==
    << [username |-> <<"d","b">>, fullname |-> NameDB,
        ppms_fullname |-> PyNone] >>

Dates == { Datetime(10, 9, 41, 27, 5), Datetime(31, 0, 0, 0, 0) }

SheetInit ==
    /\ rs_rows \in RowLists
    /\ rs_text \in IF rs_rows = <<>>
                   THEN {<<>>, SheetText(rs_rows), NotAuthorized}
                   ELSE {SheetText(rs_rows)}
    /\ date \in Dates
    /\ vamp_only \in BOOLEAN
    /\ mysql_connection \in {PyNone, Connected}
    /\ db_users = IF mysql_connection = PyNone THEN <<>> ELSE StoredUsers
    /\ systems = KnownSystems
    /\ rs_users = KnownUsers
    /\ rs_outcome = "pending"
    /\ rs_passes = 0
    /\ reservation_array = <<>>

SheetIdle ==
    /\ rs_rows = <<>>
    /\ rs_text = <<>>
    /\ date = Datetime(0, 0, 0, 0, 0)
    /\ vamp_only = FALSE
    /\ mysql_connection = PyNone
    /\ db_users = <<>>
    /\ systems = <<>>
    /\ rs_users = <<>>
    /\ rs_outcome = "pending"
    /\ rs_passes = 0
    /\ reservation_array = <<>>

\* ppms.py:792-925
GetRunningSheet ==
    /\ rs_outcome = "pending"
    /\ LET r == GetRunningSheetResult(rs_text, date, vamp_only,
                    mysql_connection, db_users, systems, rs_users)
       IN  /\ rs_outcome' = r.outcome
           /\ reservation_array' = r.reservation_array
           /\ db_users' = r.db
           /\ rs_passes' = r.passes
    /\ UNCHANGED <<rs_rows, rs_text, date, vamp_only, mysql_connection,
                   systems, rs_users>>
    /\ UNCHANGED notSheetVars

SheetNext == GetRunningSheet

(***************************************************************************)
(* PpmsBooking.from_runningsheet (booking.py:104-141) with the constructor *)
(* and the two setters it calls.                                           *)
(***************************************************************************)
\* booking.py:31-49
PpmsBooking(username, system_id, starttime, endtime) ==
    [username |-> username, system_id |-> IntOf(system_id),
     starttime |-> starttime, endtime |-> endtime, session |-> <<>>]

\* no booking
NoneBooking ==
    [username |-> PyNone, system_id |-> 0, starttime |-> Datetime(0, 0, 0, 0, 0),
     endtime |-> Datetime(0, 0, 0, 0, 0), session |-> <<>>]

\* booking.py:143-160
StarttimeFromstr(b, time_str, d) ==
    LET start == ClockOn(d, time_str)
    IN  [error |-> start.error,
         booking |-> IF start.error = "" THEN [b EXCEPT !.starttime = start.at]
                     ELSE b]

\* booking.py:162-179
EndtimeFromstr(b, time_str, d) ==
    LET end == ClockOn(d, time_str)
    IN  [error |-> end.error,
         booking |-> IF end.error = "" THEN [b EXCEPT !.endtime = end.at]
                     ELSE b]

\* booking.py:127-141
FromRunningsheet(entry, system_id, username, d) ==
    LET raise(e) == [outcome |-> e, booking |-> NoneBooking]
        b0 == PpmsBooking(username, system_id, d, d)
        b1 == StarttimeFromstr(b0, entry[KeyStartTime], d)
        b2 == EndtimeFromstr(b1.booking, entry[KeyEndTime], d)
    IN  IF ~IsInt(system_id) THEN raise("ValueError")
        ELSE IF KeyStartTime \notin DOMAIN entry THEN raise("KeyError")
        ELSE IF b1.error /= "" THEN raise(b1.error)
        ELSE IF KeyEndTime \notin DOMAIN entry THEN raise("KeyError")
        ELSE IF b2.error /= "" THEN raise(b2.error)
        ELSE [outcome |-> "returned", booking |-> b2.booking]

(***************************************************************************)
(* Specification SpecBooking: one call of from_runningsheet on one parsed  *)
(* row of a running sheet.                                                 *)
(***************************************************************************)
\* the times of day a row can carry, well formed or not
TimeStrings ==
    { <<"0","0",":","0","0">>, <<"0","0",":","3","0">>, <<"1","2",":","0","0">>,
      <<"2","2",":","0","0">>, <<"2","3",":","5","9">>, <<"2","4",":","0","0">>,
      <<"7">>, <<"a",":","b">> }

KeyLocation == <<"L","o","c","a","t","i","o","n">>

\* the parsed rows: Start time and End time, or a row without End time
Entries ==
    { (KeyStartTime :> st) @@ (KeyEndTime :> et) @@ (KeyLocation :> <<"R">>) :
        st \in TimeStrings, et \in TimeStrings }
        \cup { (KeyStartTime :> st) @@ (KeyLocation :> <<"R">>) :
                 st \in TimeStrings }

BookingInit ==
    /\ bk_entry \in Entries
    /\ bk_system_id \in { <<"3","1">>, <<"x">> }
    /\ bk_username = <<"l","f">>
    /\ bk_date \in Dates
    /\ bk_outcome = "pending"
    /\ bk_booking = NoneBooking

BookingIdle ==
    /\ bk_entry = (KeyLocation :> <<"R">>)
    /\ bk_system_id = <<>>
    /\ bk_username = <<>>
    /\ bk_date = Datetime(0, 0, 0, 0, 0)
    /\ bk_outcome = "pending"
    /\ bk_booking = NoneBooking

\* booking.py:104-141
CallFromRunningsheet ==
    /\ bk_outcome = "pending"
    /\ LET r == FromRunningsheet(bk_entry, bk_system_id, bk_username, bk_date)
       IN  /\ bk_outcome' = r.outcome
           /\ bk_booking' = r.booking
    /\ UNCHANGED <<bk_entry, bk_system_id, bk_username, bk_date>>
    /\ UNCHANGED notBookingVars

BookingNext == CallFromRunningsheet

(***************************************************************************)
(* PpmsBooking.from_booking_request (booking.py:55-102).  The function     *)
(* time_rel_to_abs it imports from pumapy.common reads the clock itself;   *)
(* the call reads the clock a second time for a booking of type 'get'.     *)
(***************************************************************************)
\* a datetime that is None
NoneDatetime == Datetime(0, 0, 0, 0, 0)

\* d + timedelta(minutes=m)
AddMinutes(d, m) ==
    [d EXCEPT !.day = d.day + ((d.hour * 60 + d.minute + m) \div 1440),
              !.hour = ((d.hour * 60 + d.minute + m) % 1440) \div 60,
              !.minute = (d.hour * 60 + d.minute + m) % 60]

\* datetime.replace(second=0, microsecond=0)
ZeroSeconds(d) == [d EXCEPT !.second = 0, !.microsecond = 0]

\* common.time_rel_to_abs: the clock, seconds zeroed, plus the minutes;
\* error is the exception raised, "" if none
TimeRelToAbs(minutes_from_now, now) ==
    IF ~IsInt(minutes_from_now) THEN [error |-> "ValueError", at |-> NoneDatetime]
    ELSE [error |-> "",
          at |-> AddMinutes(ZeroSeconds(now), IntOf(minutes_from_now))]

\* both kinds of booking start at the clock and have no end
BookingTimes_AlwaysNext(btype, abstime, later) ==
    [starttime |-> abstime, endtime |-> NoneDatetime]

\* booking.py:83-88: starttime and endtime of the booking
BookingTimes(btype, abstime, later) ==
    IF btype = "get"
    THEN [starttime |-> ZeroSeconds(later), endtime |-> abstime]
    ELSE [starttime |-> abstime, endtime |-> NoneDatetime]

\* an exception leaves from_booking_request
BookingRequestRaise(e) == [outcome |-> e, booking |-> NoneBooking]

\* booking.py:90-96 and 102
BookingRequestBuilt(lines, system_id, times) ==
    IF ~IsInt(system_id) THEN BookingRequestRaise("ValueError")
    ELSE IF Len(lines) < 3 THEN BookingRequestRaise("IndexError")
    ELSE [outcome |-> "returned",
          booking |-> [PpmsBooking(lines[1], system_id, times.starttime,
                                   times.endtime) EXCEPT !.session = lines[3]]]

\* booking.py:83-88 on the lines of the response
BookingRequestTimes(lines, btype, system_id, abstime, later) ==
    IF abstime.error /= "" THEN BookingRequestRaise(abstime.error)
    ELSE BookingRequestBuilt(lines, system_id,
                             BookingTimes(btype, abstime.at, later))

\* booking.py:82-83
BookingRequestLines(lines, btype, system_id, now, later) ==
    IF Len(lines) < 2 THEN BookingRequestRaise("IndexError")
    ELSE BookingRequestTimes(lines, btype, system_id,
                             TimeRelToAbs(lines[2], now), later)

\* booking.py:76-102; now and later are the two readings of the clock
FromBookingRequest(text, btype, system_id, now, later) ==
    IF btype \notin {"get", "next"} THEN BookingRequestRaise("ValueError")
    ELSE BookingRequestLines(SplitLines(text), btype, system_id, now, later)

(***************************************************************************)
(* Specification SpecRequest: one call of from_booking_request on the      *)
(* response of a getbooking or nextbooking request.                        *)
(***************************************************************************)
MaxRequestLines == 4

RequestUser    == <<"l", "f">>
RequestSession == <<"9", "1">>

\* what the server puts on the second line, and the minutes it stands for
Offsets ==
    { [text |-> <<"4","5">>, minutes |-> 45, integer |-> TRUE],
      [text |-> <<"3","0">>, minutes |-> 30, integer |-> TRUE],
      [text |-> <<"0">>, minutes |-> 0, integer |-> TRUE],
      [text |-> <<"1","5","0","0">>, minutes |-> 1500, integer |-> TRUE],
      [text |-> <<"s","o","o","n">>, minutes |-> 0, integer |-> FALSE] }

\* the i-th line of a response
RequestLine(offset, i) ==
    IF i = 1 THEN RequestUser
    ELSE IF i = 2 THEN offset.text
    ELSE IF i = 3 THEN RequestSession
    ELSE <<"z">>

\* the response: its first n lines, each ended by a line feed
RequestText(offset, n) ==
    Concat([i \in 1..n |-> RequestLine(offset, i) \o <<LF>>])

\* the clock at the call
RequestClocks ==
    { Datetime(1, 10, 0, 0, 0), Datetime(10, 9, 41, 27, 5),
      Datetime(10, 23, 30, 59, 999999) }

\* the clock when it is read again: the same instant, or the next minute
LaterClocks(now) == { now, AddMinutes(ZeroSeconds(now), 1) }

BookingRequestInit ==
    /\ bq_offset \in Offsets
    /\ bq_nlines \in 0..MaxRequestLines
    /\ bq_text = RequestText(bq_offset, bq_nlines)
    /\ booking_type \in {"get", "next", "last"}
    /\ bq_system_id \in { <<"3","1">>, <<"x">> }
    /\ bq_now \in RequestClocks
    /\ bq_later \in LaterClocks(bq_now)
    /\ bq_outcome = "pending"
    /\ bq_booking = NoneBooking

BookingRequestIdle ==
    /\ bq_offset = [text |-> <<>>, minutes |-> 0, integer |-> FALSE]
    /\ bq_nlines = 0
    /\ bq_text = <<>>
    /\ booking_type = ""
    /\ bq_system_id = <<>>
    /\ bq_now = NoneDatetime
    /\ bq_later = NoneDatetime
    /\ bq_outcome = "pending"
    /\ bq_booking = NoneBooking

\* booking.py:55-102
CallFromBookingRequest ==
    /\ bq_outcome = "pending"
    /\ LET r == FromBookingRequest(bq_text, booking_type, bq_system_id,
                                   bq_now, bq_later)
       IN  /\ bq_outcome' = r.outcome
           /\ bq_booking' = r.booking
    /\ UNCHANGED <<bq_offset, bq_nlines, bq_text, booking_type, bq_system_id,
                   bq_now, bq_later>>
    /\ UNCHANGED notRequestVars

RequestNext == CallFromBookingRequest

(***************************************************************************)
(* PpmsConnection: the constructor with __authenticate (ppms.py:122-183)   *)
(* and request (ppms.py:185-222).                                          *)
(***************************************************************************)
\* requests.codes.ok
StatusOk == 200

\* a requests.Response: its text and its status code
Response(text, status_code) == [text |-> text, status_code |-> status_code]

\* no response
NoneResponse == Response(PyNone, 0)

ErrorWord == <<"e","r","r","o","r">>

\* the word error is looked for as written
AuthenticationFails_CaseSensitive(response) ==
    \/ Contains(Lower(response.text), NotAuthorized)
    \/ Contains(response.text, ErrorWord)
    \/ response.status_code /= StatusOk

\* ppms.py:166-183: __authenticate returns False
AuthenticationFails(response) ==
    \/ Contains(Lower(response.text), NotAuthorized)
    \/ Contains(Lower(response.text), ErrorWord)
    \/ response.status_code /= StatusOk

\* ppms.py:141-149: the constructor on the response of the auth request
Construct(response) ==
    IF AuthenticationFails(response) THEN "ConnectionError" ELSE "constructed"

\* the phrase is looked for as written
Request_CaseSensitive(response) ==
    IF Contains(response.text, NotAuthorized)
    THEN [outcome |-> "ConnectionError", response |-> NoneResponse, posts |-> 1]
    ELSE [outcome |-> "returned", response |-> response, posts |-> 1]

\* ppms.py:210-222: request on the response of its one requests.post
Request(response) ==
    IF RequestRaises(response.text)
    THEN [outcome |-> "ConnectionError", response |-> NoneResponse, posts |-> 1]
    ELSE [outcome |-> "returned", response |-> response, posts |-> 1]

(***************************************************************************)
(* Specification SpecConnection: a connection is constructed and, if that  *)
(* succeeds, requests are made on it.                                      *)
(***************************************************************************)
MaxRequests == 2

\* a text of the server; denied: it has 'request not authorized' in some
\* letter case; error: it has 'error' in some letter case
Answer(text, denied, error) == [text |-> text, denied |-> denied, error |-> error]

TextDone == <<"d","o","n","e",CR,LF>>
TextCsv  == <<"a",",","b",CR,LF,"1",",","2",CR,LF>>

Answers ==
    { Answer(TextDone, FALSE, FALSE),
      Answer(TextCsv, FALSE, FALSE),
      Answer(<<>>, FALSE, FALSE),
      Answer(<<"n","o","t"," ","a","u","t","h","o","r","i","z","e","d">>,
             FALSE, FALSE),
      Answer(NotAuthorized, TRUE, FALSE),
      Answer(<<"R","e","q","u","e","s","t"," ","N","o","t"," ",
               "A","u","t","h","o","r","i","z","e","d","!",LF>>, TRUE, FALSE),
      Answer(<<"x",LF>> \o NotAuthorized \o <<":"," ","E","R","R","O","R">>,
             TRUE, TRUE),
      Answer(ErrorWord, FALSE, TRUE),
      Answer(<<"S","o","m","e"," ","E","r","r","o","r","s",LF>>, FALSE, TRUE) }

Statuses == {StatusOk, 401, 500}

ConnectionInit ==
    /\ cn_auth \in Answers
    /\ cn_status \in Statuses
    /\ cn_object = "pending"
    /\ cn_answer = Answer(<<>>, FALSE, FALSE)
    /\ cn_calls = 0
    /\ cn_posts = 0
    /\ cn_outcome = "none"
    /\ cn_response = NoneResponse

ConnectionIdle ==
    /\ cn_auth = Answer(<<>>, FALSE, FALSE)
    /\ cn_status = 0
    /\ cn_object = "pending"
    /\ cn_answer = Answer(<<>>, FALSE, FALSE)
    /\ cn_calls = 0
    /\ cn_posts = 0
    /\ cn_outcome = "none"
    /\ cn_response = NoneResponse

\* ppms.py:122-149
NewConnection ==
    /\ cn_object = "pending"
    /\ cn_object' = Construct(Response(cn_auth.text, cn_status))
    /\ UNCHANGED <<cn_auth, cn_status, cn_answer, cn_calls, cn_posts,
                   cn_outcome, cn_response>>
    /\ UNCHANGED notConnectionVars

\* ppms.py:185-222, a call on the constructed object
CallRequest ==
    /\ cn_object = "constructed"
    /\ cn_calls < MaxRequests
    /\ \E answer \in Answers, status \in Statuses :
          LET r == Request(Response(answer.text, status))
          IN  /\ cn_answer' = answer
              /\ cn_outcome' = r.outcome
              /\ cn_response' = r.response
              /\ cn_posts' = cn_posts + r.posts
    /\ cn_calls' = cn_calls + 1
    /\ UNCHANGED <<cn_auth, cn_status, cn_object>>
    /\ UNCHANGED notConnectionVars

ConnectionNext == NewConnection \/ CallRequest

(***************************************************************************)
(* Specification SpecCatalogue: get_systems builds one system from its     *)
(* name and sets its machine_catalogue (ppms.py:532-546, 631-642).         *)
(***************************************************************************)
MaxParts == 2

\* the pieces system names are put together from
NameParts ==
    { <<"N","a","b","o","o">>,
      <<"n","A","B","O","o">>,
      <<"D","A","G","O","B","A","H">>,
      <<"T","a","t","o","o","i","n","e">>,
      <<"H","o","t","h">>,
      <<"h","o","t","h">>,
      <<"H","o">>,
      <<"t","h">>,
      <<"L","S","M">>,
      <<" ","2">>,
      <<"N","a","b","o">>,
      <<"t","o","o","i","n">> }

\* the names of at most MaxParts pieces
SystemNames == { Concat(ps) : ps \in UNION { [1..n -> NameParts] : n \in 0..MaxParts } }

CatalogueInit ==
    /\ mc_name \in SystemNames
    /\ mc_done = FALSE
    /\ mc_system = NoneSystem

CatalogueIdle ==
    /\ mc_name = <<>>
    /\ mc_done = FALSE
    /\ mc_system = NoneSystem

\* ppms.py:532-546
BuildSystem ==
    /\ ~mc_done
    /\ mc_done' = TRUE
    /\ mc_system' = System(<<"3","1">>, mc_name)
    /\ UNCHANGED mc_name
    /\ UNCHANGED notCatalogueVars

CatalogueNext == BuildSystem

(***************************************************************************)
(* get_bookable_ids (ppms.py:569-614) on the systems that get_systems      *)
(* returns.                                                                *)
(***************************************************************************)
\* the fields of a system that get_bookable_ids reads
BookableSystem(id, name, loc) == [id |-> id, name |-> name, localisation |-> loc]

\* ppms.py:593, negated: the location of the system matches
LocationMatches(system, loc) ==
    Contains(Lower(Str(system.localisation)), Lower(loc))

\* ppms.py:601-605: the inner loop appends the id of the system
NameMatches(name, names) ==
    \E k \in 1..Len(names) : Contains(name, names[k])

RECURSIVE BookableIdsFrom(_, _, _, _, _)
\* ppms.py:592-609, the loop over the systems from the i-th on
BookableIdsFrom(sl, loc, names, i, ids) ==
    IF i > Len(sl) THEN ids
    ELSE IF ~LocationMatches(sl[i], loc)
         THEN BookableIdsFrom(sl, loc, names, i + 1, ids)
    ELSE IF NameMatches(sl[i].name, names)
         THEN BookableIdsFrom(sl, loc, names, i + 1, Append(ids, sl[i].id))
    ELSE BookableIdsFrom(sl, loc, names, i + 1, ids)

\* ppms.py:589-614
GetBookableIds(sl, loc, names) == BookableIdsFrom(sl, loc, names, 1, <<>>)

(***************************************************************************)
(* Specification SpecBookable: one call of get_bookable_ids.               *)
(***************************************************************************)
MaxSystems == 2
MaxNames   == 2

RoomOne == <<"R","o","o","m"," ","1">>
RoomTwo == <<"R","2">>

\* name and localisation of the systems PPMS can report
SystemKinds ==
    { <<SystemHoth, RoomOne>>, <<SystemHoth, RoomTwo>>, <<SystemLSM, RoomOne>>,
      <<SystemLSM, PyNone>>, <<SystemGone, RoomTwo>> }

\* the id of the i-th system of the list: ids are unique
IdAt(i) == <<"3", DigitChars[i + 1]>>

SystemLists ==
    { [i \in 1..Len(ks) |-> BookableSystem(IdAt(i), ks[i][1], ks[i][2])] :
        ks \in UNION { [1..n -> SystemKinds] : n \in 0..MaxSystems } }

Localisations == { <<"r","o","o","m">>, <<"R","2">>, <<>> }

ValidNames == { <<"H","o","t","h">>, SystemLSM, <<"S","P","5">> }

NameFilters == UNION { [1..n -> ValidNames] : n \in 0..MaxNames }

BookableInit ==
    /\ bi_systems \in SystemLists
    /\ localisation \in Localisations
    /\ name_contains \in NameFilters
    /\ bi_done = FALSE
    /\ system_ids = <<>>

BookableIdle ==
    /\ bi_systems = <<>>
    /\ localisation = <<>>
    /\ name_contains = <<>>
    /\ bi_done = FALSE
    /\ system_ids = <<>>

\* ppms.py:569-614
CallGetBookableIds ==
    /\ ~bi_done
    /\ bi_done' = TRUE
    /\ system_ids' = GetBookableIds(bi_systems, localisation, name_contains)
    /\ UNCHANGED <<bi_systems, localisation, name_contains>>
    /\ UNCHANGED notBookableVars

BookableNext == CallGetBookableIds

(***************************************************************************)
(* get_user_experience (ppms.py:421-466): the multi-record parse without   *)
(* the Quoting Repair.  headers is the list that map() returns in Python 2,*)
(* the language of the code (u'' literals, __builtin__ in Objects.py).     *)
(***************************************************************************)
\* str.replace('"', '')
WithoutQuotes(s) == SelectSeq(s, LAMBDA c : c /= DQ)

\* digits with at most one point and at least one digit
IsDecimal(s) ==
    /\ \A i \in 1..Len(s) : IsDigit(s[i]) \/ s[i] = "."
    /\ Cardinality({i \in 1..Len(s) : s[i] = "."}) <= 1
    /\ \E i \in 1..Len(s) : IsDigit(s[i])

\* s without one leading sign
Unsigned(s) == IF s /= <<>> /\ s[1] \in {"+", "-"} THEN Tail(s) ELSE s

\* a decimal, or a decimal, e or E, and a signed integer
IsFloatBody(s) ==
    \/ IsDecimal(s)
    \/ \E k \in 1..Len(s) :
          /\ s[k] \in {"e", "E"}
          /\ IsDecimal(SubSeq(s, 1, k - 1))
          /\ IsInt(Unsigned(SubSeq(s, k + 1, Len(s))))

FloatWords ==
    { <<"n","a","n">>, <<"i","n","f">>, <<"i","n","f","i","n","i","t","y">> }

\* float(s) does not raise ValueError
IsFloat(s) ==
    \/ IsFloatBody(Unsigned(Strip(s, Whitespace)))
    \/ Lower(Unsigned(Strip(s, Whitespace))) \in FloatWords

\* the number float(s), kept as its literal; never equal to a string
Float(s) == <<"<float>">> \o Strip(s, Whitespace)

NotAvailable == <<"n","/","a">>

\* ppms.py:458-463, the value stored for values[index]
ExperienceValue(v) ==
    IF IsFloat(v) THEN Float(v)
    ELSE IF Contains(v, NotAvailable) THEN PyNone
    ELSE v

\* ppms.py:454-464, one pass of the loop: the dict of the line, or the
\* IndexError of values[index] on a line shorter than the header
ExperienceOfValues(headers, values) ==
    IF Len(values) < Len(headers)
    THEN [error |-> "IndexError", experience |-> <<>>]
    ELSE [error |-> "",
          experience |->
              << DictFromZip(headers,
                     [i \in 1..Len(headers) |-> ExperienceValue(values[i])]) >>]

RECURSIVE ExperienceRows(_, _, _, _)
RECURSIVE ExperienceRowsAfter(_, _, _, _, _)
\* ppms.py:453-466, the loop from line i on after the pass r of line i
ExperienceRowsAfter(headers, lines, i, array, r) ==
    IF r.error /= "" THEN [outcome |-> r.error, experience_array |-> <<>>]
    ELSE ExperienceRows(headers, lines, i + 1, array \o r.experience)

\* ppms.py:453-466, the loop over the data lines from line i on
ExperienceRows(headers, lines, i, array) ==
    IF i > Len(lines) THEN [outcome |-> "returned", experience_array |-> array]
    ELSE ExperienceRowsAfter(headers, lines, i, array,
             ExperienceOfValues(headers, Split(lines[i], <<",">>)))

\* ppms.py:450-451, the stripped names of the header line
ExperienceHeaders(split) ==
    [i \in 1..Len(split) |-> Strip(split[i], Whitespace)] \o <<>>

\* ppms.py:450-466 on the lines of the text
ExperienceOfLines(lines) ==
    IF lines = <<>>
    THEN [outcome |-> "IndexError", experience_array |-> <<>>]
    ELSE ExperienceRows(ExperienceHeaders(Split(lines[1], <<",">>)),
                        Tail(lines), 1, <<>>)

\* ppms.py:439-466, after the request
GetUserExperienceResult(response) ==
    IF RequestRaises(response)
    THEN [outcome |-> "ConnectionError", experience_array |-> <<>>]
    ELSE ExperienceOfLines(SplitLines(WithoutQuotes(response)))

(***************************************************************************)
(* Specification SpecExperience: one call of get_user_experience on the    *)
(* lines the server reports.                                               *)
(***************************************************************************)
MaxExperienceRows   == 2
MaxExperienceFields == 3

KeyLogin == <<"l","o","g","i","n">>
KeyId    == <<"i","d">>

\* the header line of the response
ExperienceHeader == KeyLogin \o <<","," ">> \o KeyId

\* a field as sent, what it is without quotes, and what it looks like:
\* "number", "n/a" (the token itself) or "text"
Field(sent, plain, looks) == [sent |-> sent, plain |-> plain, looks |-> looks]

ExperienceFields ==
    { Field(<<"\"","2","6","\"">>, <<"2","6">>, "number"),
      Field(<<"3",".","2","5">>, <<"3",".","2","5">>, "number"),
      Field(<<"n","/","a">>, <<"n","/","a">>, "n/a"),
      Field(<<"n","o"," ","n","/","a"," ","y","e","t">>, <<"n","o"," ","n","/","a"," ","y","e","t">>, "text"),
      Field(<<"n","e","f","f","b","a","0","0">>, <<"n","e","f","f","b","a","0","0">>, "text") }

ExperienceLines ==
    UNION { [1..n -> ExperienceFields] : n \in 1..MaxExperienceFields }

ExperienceRowLists ==
    UNION { [1..n -> ExperienceLines] : n \in 0..MaxExperienceRows }

\* one data line
ExperienceLine(fields) ==
    Join([i \in 1..Len(fields) |-> fields[i].sent], <<",">>) \o <<CR, LF>>

ExperienceText(rows) ==
    ExperienceHeader \o <<CR, LF>>
        \o Concat([i \in 1..Len(rows) |-> ExperienceLine(rows[i])])

ExperienceInit ==
    /\ xp_rows \in ExperienceRowLists
    /\ xp_text \in IF xp_rows = <<>>
                   THEN {<<>>, ExperienceText(xp_rows), NotAuthorized}
                   ELSE {ExperienceText(xp_rows)}
    /\ xp_outcome = "pending"
    /\ experience_array = <<>>

ExperienceIdle ==
    /\ xp_rows = <<>>
    /\ xp_text = <<>>
    /\ xp_outcome = "pending"
    /\ experience_array = <<>>

\* ppms.py:421-466
GetUserExperience ==
    /\ xp_outcome = "pending"
    /\ LET r == GetUserExperienceResult(xp_text)
       IN  /\ xp_outcome' = r.outcome
           /\ experience_array' = r.experience_array
    /\ UNCHANGED <<xp_rows, xp_text>>
    /\ UNCHANGED notExperienceVars

ExperienceNext == GetUserExperience

(***************************************************************************)
(* User objects (Objects.py:337-401) and get_ppms_user (ppms.py:930-985)   *)
(***************************************************************************)
\* the first assert accepts None: only the empty string is refused
NewUserRaises_EmptyOnly(username) == username = <<>>

\* Objects.py:348-349: the two asserts
NewUserRaises(username) == username = PyNone \/ username = <<>>

\* Objects.py:339-359
NewUser(username, fullname, ppms_fullname) ==
    IF NewUserRaises(username)
    THEN [outcome |-> "AssertionError", user |-> NoneUser]
    ELSE [outcome |-> "constructed",
          user    |-> User(username, fullname, ppms_fullname)]

\* re.sub(',' + word, ',"' + word + '"', s): every comma followed by the
\* word in exactly this letter case
SubExactWord(word, s) ==
    LET starts == {p \in 1..Len(s) : HasPrefixAt(s, p, <<",">> \o word)}
    IN  WithQuotesAfter(s, starts \cup {p + Len(word) : p \in starts})

\* ppms.py:950-956
UserQuotingRepair(s) ==
    SubTrailingNumber(SubLeadingNumber(SubInnerNumber(
        SubExactWord(<<"t","r","u","e">>, SubExactWord(<<"f","a","l","s","e">>, s)))))

\* ppms.py:968-973
UserInfoValue(v) ==
    IF v = <<"t","r","u","e">> THEN PyTrue
    ELSE IF v = <<"f","a","l","s","e">> THEN PyFalse
    ELSE v

KeyFname     == <<"f","n","a","m","e">>
KeyLname     == <<"l","n","a","m","e">>
KeyEmail     == <<"e","m","a","i","l">>
KeyUnitlogin == <<"u","n","i","t","l","o","g","i","n">>

\* ppms.py:975-984: the keys read from user_info
UserInfoKeys == {KeyFname, KeyLname, KeyLogin, KeyEmail, KeyUnitlogin}

\* ppms.py:975-984
UserFromInfo(user_info) ==
    IF ~(UserInfoKeys \subseteq DOMAIN user_info)
    THEN [outcome |-> "KeyError", user |-> NoneUser]
    ELSE LET built == NewUser(user_info[KeyLogin],
                          Str(user_info[KeyFname]) \o <<" ">>
                              \o Str(user_info[KeyLname]),
                          Str(user_info[KeyLname]) \o <<" ">>
                              \o Str(user_info[KeyFname]))
         IN  [outcome |-> IF built.outcome = "constructed"
                          THEN "returned" ELSE built.outcome,
              user    |-> built.user]

\* ppms.py:958-973
UserInfoOf(headers, values) ==
    IF Len(values) < Len(headers)
    THEN [outcome |-> "IndexError", user |-> NoneUser]
    ELSE UserFromInfo(DictFromZip(headers,
             [i \in 1..Len(headers) |-> UserInfoValue(values[i])]))

\* ppms.py:958-963
UserOfLines(lines) ==
    IF Len(lines) < 2
    THEN [outcome |-> "IndexError", user |-> NoneUser]
    ELSE UserInfoOf(ExperienceHeaders(Split(lines[1], <<",">>)),
                    SplitRow(lines[2]))

\* ppms.py:936-985, after the request
GetPpmsUserResult(text) ==
    IF RequestRaises(text)
    THEN [outcome |-> "ConnectionError", user |-> NoneUser]
    ELSE UserOfLines(SplitLines(UserQuotingRepair(text)))

(***************************************************************************)
(* Specification SpecUser: a User is constructed, directly or by           *)
(* get_ppms_user from the getuser response, and its properties are read.   *)
(***************************************************************************)
UsernameArguments == { PyNone, <<>>, <<"u","1">>, <<" ">> }
FullnameArguments == { PyNone, <<>>, <<" ">>, <<"F"," ","L">> }

\* the names the server reports
ReportedNames == { <<"P","u","m","A","P","I">>, <<"P","y","t","h","o","n">>, <<"a">>, <<"a"," ","a">>, <<"t","r","u","e">> }
ReportedLogins == { <<"u","1">>, <<>> }

\* the header of getuser (ppms.py:946)
UserHeader ==
    <<"l","o","g","i","n",",","l","n","a","m","e",",","f","n","a","m","e",",","e","m","a","i","l",",","p","h","o","n","e",",","b","c","o","d","e",",","a","f","f","i","l","i","a","t","i","o","n",",","u","n","i","t","l","o","g","i","n",",","m","u","s","t","c","h","p","w","d",",","m","u","s","t","c","h","b","c","o","d","e",",","a","c","t","i","v","e">>

\* the response for one user (ppms.py:947)
UserText(login, lname, fname) ==
    UserHeader \o <<CR, LF>>
        \o <<DQ>> \o login \o <<DQ, ",", DQ>> \o lname \o <<DQ, ",", DQ>>
        \o fname \o <<DQ>>
        \o <<",","\"","e","@","x","\"",",","\"","-","\"",",","\"","\"",",","\"","\"",",","\"","g","\"",",","f","a","l","s","e",",","f","a","l","s","e",",","t","r","u","e">> \o <<CR, LF>>

UserInit ==
    /\ us_username \in UsernameArguments
    /\ us_fullname \in FullnameArguments
    /\ us_login \in ReportedLogins
    /\ us_first \in ReportedNames
    /\ us_last \in ReportedNames
    /\ us_text \in { UserText(us_login, us_last, us_first),
                     UserHeader \o <<CR, LF>>, NotAuthorized }
    /\ us_call = ""
    /\ us_outcome = "pending"
    /\ us_user = NoneUser
    /\ us_read = ""
    /\ us_value = PyNone

UserIdle ==
    /\ us_username = PyNone
    /\ us_fullname = PyNone
    /\ us_login = <<>>
    /\ us_first = <<>>
    /\ us_last = <<>>
    /\ us_text = <<>>
    /\ us_call = ""
    /\ us_outcome = "pending"
    /\ us_user = NoneUser
    /\ us_read = ""
    /\ us_value = PyNone

\* Objects.py:339-359: User(username, fullname, ...)
ConstructUser ==
    /\ us_outcome = "pending"
    /\ LET r == NewUser(us_username, us_fullname, PyNone)
       IN  /\ us_outcome' = r.outcome
           /\ us_user' = r.user
    /\ us_call' = "User"
    /\ UNCHANGED <<us_username, us_fullname, us_login, us_first, us_last,
                   us_text, us_read, us_value>>
    /\ UNCHANGED notUserVars

\* ppms.py:930-985
GetPpmsUser ==
    /\ us_outcome = "pending"
    /\ LET r == GetPpmsUserResult(us_text)
       IN  /\ us_outcome' = r.outcome
           /\ us_user' = r.user
    /\ us_call' = "get_ppms_user"
    /\ UNCHANGED <<us_username, us_fullname, us_login, us_first, us_last,
                   us_text, us_read, us_value>>
    /\ UNCHANGED notUserVars

\* Objects.py:361-363: user.username
ReadUsername ==
    /\ us_user /= NoneUser
    /\ us_read' = "username"
    /\ us_value' = us_user.username
    /\ UNCHANGED <<us_username, us_fullname, us_login, us_first, us_last,
                   us_text, us_call, us_outcome, us_user>>
    /\ UNCHANGED notUserVars

\* Objects.py:365-370: user.fullname
ReadFullname ==
    /\ us_user /= NoneUser
    /\ us_read' = "fullname"
    /\ us_value' = Fullname(us_user)
    /\ UNCHANGED <<us_username, us_fullname, us_login, us_first, us_last,
                   us_text, us_call, us_outcome, us_user>>
    /\ UNCHANGED notUserVars

UserNext == ConstructUser \/ GetPpmsUser \/ ReadUsername \/ ReadFullname

(***************************************************************************)
(* get_systems (ppms.py:485-552) and its cache self.systems                *)
(***************************************************************************)
\* ppms.py:532-542: the columns read from details
SystemKeys ==
    { <<"S","y","s","t","e","m"," ","i","d">>, <<"N","a","m","e">>, <<"L","o","c","a","l","i","s","a","t","i","o","n">>, <<"T","y","p","e">>,
      <<"C","o","r","e"," ","f","a","c","i","l","i","t","y"," ","r","e","f">>, <<"S","c","h","e","d","u","l","e","s">>, <<"A","c","t","i","v","e">>, <<"S","t","a","t","s">>,
      <<"B","o","o","k","a","b","l","e">>, <<"A","u","t","o","n","o","m","y"," ","R","e","q","u","i","r","e","d">>,
      <<"A","u","t","o","n","o","m","y"," ","R","e","q","u","i","r","e","d"," ","A","f","t","e","r"," ","H","o","u","r","s">> }

\* ppms.py:524-528
SystemDetail(v) ==
    IF v = <<"T","r","u","e">> THEN PyTrue
    ELSE IF v = <<"F","a","l","s","e">> THEN PyFalse
    ELSE v

\* ppms.py:516-546: one line of the response
SystemOfValues(headers, values) ==
    IF Len(values) < Len(headers)
    THEN [error |-> "IndexError", system |-> NoneSystem]
    ELSE LET details == DictFromZip(headers,
                 [i \in 1..Len(headers) |-> SystemDetail(values[i])])
         IN  IF ~(SystemKeys \subseteq DOMAIN details)
             THEN [error |-> "KeyError", system |-> NoneSystem]
             ELSE [error  |-> "",
                   system |-> System(details[<<"S","y","s","t","e","m"," ","i","d">>],
                                     details[<<"N","a","m","e">>])]

RECURSIVE SystemRows(_, _, _, _)
\* what the loop does with the line built into r
SystemRowsAfter(headers, lines, i, system_array, r) ==
    IF r.error /= ""
    THEN [outcome |-> r.error, system_array |-> <<>>]
    ELSE SystemRows(headers, lines, i + 1, Append(system_array, r.system))

\* ppms.py:515-552, the loop from the i-th line on
SystemRows(headers, lines, i, system_array) ==
    IF i > Len(lines)
    THEN [outcome |-> "returned", system_array |-> system_array]
    ELSE SystemRowsAfter(headers, lines, i, system_array,
             SystemOfValues(headers, SplitRow(lines[i])))

\* ppms.py:512-552
SystemsOfLines(lines) ==
    IF lines = <<>>
    THEN [outcome |-> "IndexError", system_array |-> <<>>]
    ELSE SystemRows(ExperienceHeaders(Split(lines[1], <<",">>)),
                    Tail(lines), 1, <<>>)

\* ppms.py:496-552: the call after the request was sent
SystemsOfResponse(text) ==
    IF RequestRaises(text)
    THEN [outcome |-> "ConnectionError", system_array |-> <<>>]
    ELSE SystemsOfLines(SplitLines(QuotingRepair(text)))

\* the value None where a list of systems is expected
NoneSystems == <<NoneSystem>>

\* the request is sent although the cache could be used
UsesCache_Never(cache, cached) == FALSE

\* ppms.py:492
UsesCache(cache, cached) == cache /= NoneSystems /\ cached

\* ppms.py:485-552: the call on the cache, with the response the request
\* would get: the outcome, the list returned, the cache afterwards and
\* whether the request was sent
GetSystemsResult(cache, cached, text) ==
    IF UsesCache(cache, cached)
    THEN [outcome |-> "returned", returned |-> cache, systems |-> cache,
          sent |-> FALSE]
    ELSE LET r == SystemsOfResponse(text)
         IN  [outcome  |-> r.outcome,
              returned |-> r.system_array,
              systems  |-> IF r.outcome = "returned"
                           THEN r.system_array ELSE cache,
              sent     |-> TRUE]

(***************************************************************************)
(* Specification SpecSystems: calls of get_systems on one connection, each *)
(* with its argument and with the response the server would give.          *)
(***************************************************************************)
MaxSystemsCalls == 3

\* the header of getsystems
SystemsHeader ==
    <<"C","o","r","e"," ","f","a","c","i","l","i","t","y"," ","r","e","f",",","S","y","s","t","e","m"," ","i","d",",","T","y","p","e",",","N","a","m","e",",","L","o","c","a","l","i","s","a","t","i","o","n",",","S","c","h","e","d","u","l","e","s",",","A","c","t","i","v","e",",","S","t","a","t","s",",","B","o","o","k","a","b","l","e",",","A","u","t","o","n","o","m","y"," ","R","e","q","u","i","r","e","d",",","A","u","t","o","n","o","m","y"," ","R","e","q","u","i","r","e","d"," ","A","f","t","e","r"," ","H","o","u","r","s">>

SystemLineNaboo  == <<"2",",","3","1",",","\"","C","o","n","f","o","c","a","l","\"",",","\"","N","a","b","o","o"," ","L","S","M","\"",",","\"","B","1","\"",",","t","r","u","e",",","t","r","u","e",",","t","r","u","e",",","t","r","u","e",",","f","a","l","s","e",",","f","a","l","s","e">>
SystemLineHoth   == <<"2",",","7",",","\"","W","i","d","e","f","i","e","l","d","\"",",","\"","H","o","t","h","\"",",","\"","B","2","\"",",","t","r","u","e",",","t","r","u","e",",","f","a","l","s","e",",","t","r","u","e",",","f","a","l","s","e",",","f","a","l","s","e">>
SystemLineShort  == <<"2",",","9",",","\"","W","i","d","e","f","i","e","l","d","\"">>

\* the responses: no system, one, two, the systems in the other order, a
\* line with missing fields, a header without the column Name, nothing,
\* and the refusal
SystemsAnswers ==
    { SystemsHeader \o <<CR, LF>>,
      SystemsHeader \o <<CR, LF>> \o SystemLineNaboo \o <<CR, LF>>,
      SystemsHeader \o <<CR, LF>> \o SystemLineNaboo \o <<CR, LF>>
          \o SystemLineHoth \o <<CR, LF>>,
      SystemsHeader \o <<CR, LF>> \o SystemLineHoth \o <<CR, LF>>
          \o SystemLineNaboo \o <<CR, LF>>,
      SystemsHeader \o <<CR, LF>> \o SystemLineNaboo \o <<CR, LF>>
          \o SystemLineShort \o <<CR, LF>>,
      <<"S","y","s","t","e","m"," ","i","d",",","T","y","p","e">> \o <<CR, LF>> \o <<"3","1",",","\"","C","o","n","f","o","c","a","l","\"">> \o <<CR, LF>>,
      <<>>,
      NotAuthorized }

\* ppms.py:140-143
SystemsInit ==
    /\ gs_systems = NoneSystems
    /\ use_cached = TRUE
    /\ gs_calls = 0
    /\ gs_requests = 0
    /\ gs_answer = <<>>
    /\ gs_outcome = "pending"
    /\ gs_returned = <<>>

SystemsIdle ==
    /\ gs_systems = NoneSystems
    /\ use_cached = TRUE
    /\ gs_calls = 0
    /\ gs_requests = 0
    /\ gs_answer = <<>>
    /\ gs_outcome = "pending"
    /\ gs_returned = <<>>

\* ppms.py:485-552: get_systems(use_cached)
GetSystems ==
    /\ gs_calls < MaxSystemsCalls
    /\ \E cached \in BOOLEAN, text \in SystemsAnswers :
          LET r == GetSystemsResult(gs_systems, cached, text)
          IN  /\ use_cached' = cached
              /\ gs_answer' = IF r.sent THEN text ELSE gs_answer
              /\ gs_requests' = IF r.sent THEN gs_requests + 1 ELSE gs_requests
              /\ gs_outcome' = r.outcome
              /\ gs_returned' = r.returned
              /\ gs_systems' = r.systems
    /\ gs_calls' = gs_calls + 1
    /\ UNCHANGED notSystemsVars

SystemsNext == GetSystems

(***************************************************************************)
(* The lock file (Common.py:39-127): is_process_running, create_lock_file  *)
(* and remove_lock_file, run by two processes step by step.  A step is one *)
(* access to the file system.                                              *)
(***************************************************************************)
Procs == {1, 2}

\* os.getpid() of the two processes, the PID of another running program
\* and a PID that no process has
GetPid(p) == IF p = 1 THEN 17 ELSE 23
OtherPids == [running |-> 4, stale |-> 99]

NoFile == <<"<no file>">>

RECURSIVE StrOfInt(_)
\* str(n) for n >= 0
StrOfInt(n) ==
    IF n < 10 THEN <<DigitChars[n + 1]>>
    ELSE StrOfInt(n \div 10) \o <<DigitChars[(n % 10) + 1]>>

\* infile.readline(): the text up to the first \n, the \n included
ReadLine(content) ==
    IF \E i \in 1..Len(content) : content[i] = LF
    THEN SubSeq(content, 1,
             CHOOSE i \in 1..Len(content) :
                /\ content[i] = LF
                /\ \A j \in 1..(i - 1) : content[j] /= LF)
    ELSE content

NonePid == [parsed |-> FALSE, pid |-> 0]

\* Common.py:54-59: int(lock_pid), None when int() raises
ParsePid(line) ==
    LET s == Strip(line, Whitespace)
    IN  IF IsInt(Unsigned(s))
        THEN [parsed |-> TRUE,
              pid    |-> IF s[1] = "-" THEN 0 - IntOf(Unsigned(s))
                         ELSE IntOf(Unsigned(s))]
        ELSE NonePid

\* psutil.pids(): the other program and the processes that have not ended
Pids(pc) == {OtherPids.running} \cup {GetPid(p) : p \in {q \in Procs : pc[q] /= "ended"}}

\* os.remove(lock_file): the file is gone when the directory allows it
AfterRemove(content, writable) == IF writable THEN NoFile ELSE content

\* file(lock_file, 'w').write(pid) succeeds: an existing file is
\* overwritten, a new one needs a writable directory
CanWrite(content, writable) == content /= NoFile \/ writable

(***************************************************************************)
(* Specification SpecLock: the two processes, each calling                 *)
(* is_process_running, create_lock_file when that returned False, and      *)
(* remove_lock_file at its end, in every interleaving of their steps.      *)
(***************************************************************************)
\* what the lock file holds at the start: the PID of no process, the PID
\* of a running program, text that is no number, nothing
LockContents ==
    { StrOfInt(OtherPids.stale), StrOfInt(OtherPids.running) \o <<LF>>, <<"p","i","d","?">>, <<>> }

LockInit ==
    /\ lock_file \in {NoFile} \cup LockContents
    /\ lock_dir_writable \in BOOLEAN
    /\ lp_pc = [p \in Procs |-> "start"]
    /\ lock_pid = [p \in Procs |-> NonePid]
    /\ lp_running = [p \in Procs |-> "unknown"]
    /\ lp_created = [p \in Procs |-> "no"]

LockIdle ==
    /\ lock_file = NoFile
    /\ lock_dir_writable = TRUE
    /\ lp_pc = [p \in Procs |-> "start"]
    /\ lock_pid = [p \in Procs |-> NonePid]
    /\ lp_running = [p \in Procs |-> "unknown"]
    /\ lp_created = [p \in Procs |-> "no"]

\* Common.py:45-47: os.path.isfile(lock_file)
IsFile(p) ==
    /\ lp_pc[p] = "start"
    /\ IF lock_file = NoFile
       THEN /\ lp_running' = [lp_running EXCEPT ![p] = "False"]
            /\ lp_pc' = [lp_pc EXCEPT ![p] = "returned"]
       ELSE /\ lp_pc' = [lp_pc EXCEPT ![p] = "open"]
            /\ UNCHANGED lp_running
    /\ UNCHANGED <<lock_file, lock_dir_writable, lock_pid, lp_created>>
    /\ UNCHANGED notLockVars

\* Common.py:52-59: open() raises IOError when the file is gone
ReadPid(p) ==
    /\ lp_pc[p] = "open"
    /\ IF lock_file = NoFile
       THEN /\ lp_running' = [lp_running EXCEPT ![p] = "IOError"]
            /\ lp_pc' = [lp_pc EXCEPT ![p] = "ended"]
            /\ UNCHANGED lock_pid
       ELSE /\ lock_pid' = [lock_pid EXCEPT ![p] = ParsePid(ReadLine(lock_file))]
            /\ lp_pc' = [lp_pc EXCEPT ![p] = "pids"]
            /\ UNCHANGED lp_running
    /\ UNCHANGED <<lock_file, lock_dir_writable, lp_created>>
    /\ UNCHANGED notLockVars

\* Common.py:64-76: psutil.pids() and the two returns of True; the process
\* that finds the lock taken ends
CheckPids(p) ==
    /\ lp_pc[p] = "pids"
    /\ IF ~lock_pid[p].parsed \/ lock_pid[p].pid \in Pids(lp_pc)
       THEN /\ lp_running' = [lp_running EXCEPT ![p] = "True"]
            /\ lp_pc' = [lp_pc EXCEPT ![p] = "ended"]
       ELSE /\ lp_pc' = [lp_pc EXCEPT ![p] = "remove"]
            /\ UNCHANGED lp_running
    /\ UNCHANGED <<lock_file, lock_dir_writable, lock_pid, lp_created>>
    /\ UNCHANGED notLockVars

\* Common.py:78-95: chmod and os.remove, their exceptions logged, then
\* return False
RemoveStale(p) ==
    /\ lp_pc[p] = "remove"
    /\ lock_file' = IF lock_file = NoFile THEN NoFile
                    ELSE AfterRemove(lock_file, lock_dir_writable)
    /\ lp_running' = [lp_running EXCEPT ![p] = "False"]
    /\ lp_pc' = [lp_pc EXCEPT ![p] = "returned"]
    /\ UNCHANGED <<lock_dir_writable, lock_pid, lp_created>>
    /\ UNCHANGED notLockVars

\* Common.py:103-105: create_lock_file, os.path.isfile(lock_file)
CreateIsFile(p) ==
    /\ lp_pc[p] = "returned"
    /\ IF lock_file /= NoFile
       THEN /\ lp_created' = [lp_created EXCEPT ![p] = "RuntimeError"]
            /\ lp_pc' = [lp_pc EXCEPT ![p] = "ended"]
       ELSE /\ lp_pc' = [lp_pc EXCEPT ![p] = "write"]
            /\ UNCHANGED lp_created
    /\ UNCHANGED <<lock_file, lock_dir_writable, lock_pid, lp_running>>
    /\ UNCHANGED notLockVars

\* Common.py:107-115: the file is written, or the exception is logged and
\* the function returns
WritePid(p) ==
    /\ lp_pc[p] = "write"
    /\ IF CanWrite(lock_file, lock_dir_writable)
       THEN /\ lock_file' = StrOfInt(GetPid(p))
            /\ lp_created' = [lp_created EXCEPT ![p] = "written"]
       ELSE /\ lp_created' = [lp_created EXCEPT ![p] = "not written"]
            /\ UNCHANGED lock_file
    /\ lp_pc' = [lp_pc EXCEPT ![p] = "created"]
    /\ UNCHANGED <<lock_dir_writable, lock_pid, lp_running>>
    /\ UNCHANGED notLockVars

\* Common.py:123-127: remove_lock_file, os.path.isfile(lock_file)
RemoveIsFile(p) ==
    /\ lp_pc[p] = "created"
    /\ lp_pc' = [lp_pc EXCEPT ![p] = IF lock_file = NoFile THEN "ended"
                                     ELSE "removing"]
    /\ UNCHANGED <<lock_file, lock_dir_writable, lock_pid, lp_running,
                   lp_created>>
    /\ UNCHANGED notLockVars

\* Common.py:125: os.remove(lock_file), which may raise
RemoveLock(p) ==
    /\ lp_pc[p] = "removing"
    /\ lock_file' = IF lock_file = NoFile THEN NoFile
                    ELSE AfterRemove(lock_file, lock_dir_writable)
    /\ lp_pc' = [lp_pc EXCEPT ![p] = "ended"]
    /\ UNCHANGED <<lock_dir_writable, lock_pid, lp_running, lp_created>>
    /\ UNCHANGED notLockVars

LockNext ==
    \E p \in Procs :
        \/ IsFile(p)
        \/ ReadPid(p)
        \/ CheckPids(p)
        \/ RemoveStale(p)
        \/ CreateIsFile(p)
        \/ WritePid(p)
        \/ RemoveIsFile(p)
        \/ RemoveLock(p)

(***************************************************************************)
(* The table jobs (Common.py:177-262): job_start and job_end               *)
(***************************************************************************)
\* end_time of a row inserted without it (Common.py:225): no time, which
\* is not > 0
NullTime == 0

\* DELETE ... WHERE task = .. without the test of end_time
DeleteCompleted_AllOfTask(rows, task) ==
    SelectSeq(rows, LAMBDA row : row.task /= task)

\* Common.py:214-218: DELETE FROM jobs WHERE task = %s AND end_time > 0
DeleteCompleted(rows, task) ==
    SelectSeq(rows, LAMBDA row : ~(row.task = task /\ row.end_time > 0))

\* Common.py:225-228: INSERT INTO jobs (start_time, task, description)
\* VALUES (NOW(), %s, %s)
InsertJob(rows, id, now, task, description) ==
    Append(rows, [id |-> id, start_time |-> now, end_time |-> NullTime,
                  task |-> task, description |-> description])

\* Common.py:211-224: the rows after the first part of job_start
AfterRemovePrevious(rows, task, remove_previous_tasks) ==
    IF remove_previous_tasks THEN DeleteCompleted(rows, task) ELSE rows

\* Common.py:177-239: the rows after job_start
JobStartRows(rows, id, now, task, description, remove_previous_tasks) ==
    InsertJob(AfterRemovePrevious(rows, task, remove_previous_tasks),
              id, now, task, description)

\* Common.py:251-253: UPDATE jobs SET end_time = NOW() WHERE id = %s
JobEndRows(rows, now, id) ==
    [i \in 1..Len(rows) |->
        IF rows[i].id = id THEN [rows[i] EXCEPT !.end_time = now]
        ELSE rows[i]]

(***************************************************************************)
(* Specification SpecJobs: calls of job_start and job_end on one table.    *)
(***************************************************************************)
MaxJobCalls == 6

Tasks == { <<"s","y","n","c">>, <<"m","a","i","l">> }

NoCall == [name |-> "", task |-> <<>>, remove_previous_tasks |-> FALSE,
           identifier |-> 0]

JobsInit ==
    /\ jobs = <<>>
    /\ jobs_auto_increment = 1
    /\ jobs_now = 1
    /\ jobs_call = NoCall
    /\ identifier = 0

JobsIdle ==
    /\ jobs = <<>>
    /\ jobs_auto_increment = 1
    /\ jobs_now = 1
    /\ jobs_call = NoCall
    /\ identifier = 0

\* Common.py:177-239: job_start(mysql_connection, task, description,
\* remove_previous_tasks); cursor.lastrowid is the id of the inserted row
JobStart ==
    /\ jobs_now <= MaxJobCalls
    /\ \E task \in Tasks, remove_previous_tasks \in BOOLEAN :
          /\ jobs' = JobStartRows(jobs, jobs_auto_increment, jobs_now, task,
                                  <<"j","o","b">>, remove_previous_tasks)
          /\ jobs_call' = [name |-> "job_start", task |-> task,
                           remove_previous_tasks |-> remove_previous_tasks,
                           identifier |-> 0]
    /\ identifier' = jobs_auto_increment
    /\ jobs_auto_increment' = jobs_auto_increment + 1
    /\ jobs_now' = jobs_now + 1
    /\ UNCHANGED notJobsVars

\* Common.py:242-262: job_end(mysql_connection, identifier), with the
\* identifier of any job_start made so far
JobEnd ==
    /\ jobs_now <= MaxJobCalls
    /\ \E id \in 1..(jobs_auto_increment - 1) :
          /\ jobs' = JobEndRows(jobs, jobs_now, id)
          /\ jobs_call' = [name |-> "job_end", task |-> <<>>,
                           remove_previous_tasks |-> FALSE, identifier |-> id]
    /\ jobs_now' = jobs_now + 1
    /\ UNCHANGED <<jobs_auto_increment, identifier>>
    /\ UNCHANGED notJobsVars

JobsNext == JobStart \/ JobEnd

(***************************************************************************)
(* The specifications: each runs one part of the program from its inputs   *)
(* and leaves the other parts idle.                                        *)
(***************************************************************************)
InitRepair == RepairInit /\ SingleIdle /\ LookupIdle /\ SheetIdle /\ BookingIdle
    /\ BookingRequestIdle /\ ConnectionIdle /\ CatalogueIdle /\ BookableIdle
    /\ ExperienceIdle /\ UserIdle /\ SystemsIdle /\ LockIdle /\ JobsIdle

SpecRepair == InitRepair /\ [][RepairNext]_vars

InitSingle == SingleInit /\ RepairIdle /\ LookupIdle /\ SheetIdle /\ BookingIdle
    /\ BookingRequestIdle /\ ConnectionIdle /\ CatalogueIdle /\ BookableIdle
    /\ ExperienceIdle /\ UserIdle /\ SystemsIdle /\ LockIdle /\ JobsIdle

SpecSingle == InitSingle /\ [][SingleNext]_vars

InitLookup == LookupInit /\ RepairIdle /\ SingleIdle /\ SheetIdle /\ BookingIdle
    /\ BookingRequestIdle /\ ConnectionIdle /\ CatalogueIdle /\ BookableIdle
    /\ ExperienceIdle /\ UserIdle /\ SystemsIdle /\ LockIdle /\ JobsIdle

SpecLookup == InitLookup /\ [][LookupNext]_vars

InitSheet == SheetInit /\ RepairIdle /\ SingleIdle /\ LookupIdle /\ BookingIdle
    /\ BookingRequestIdle /\ ConnectionIdle /\ CatalogueIdle /\ BookableIdle
    /\ ExperienceIdle /\ UserIdle /\ SystemsIdle /\ LockIdle /\ JobsIdle

SpecSheet == InitSheet /\ [][SheetNext]_vars

InitBooking ==
    BookingInit /\ RepairIdle /\ SingleIdle /\ LookupIdle /\ SheetIdle
    /\ BookingRequestIdle /\ ConnectionIdle /\ CatalogueIdle /\ BookableIdle
    /\ ExperienceIdle /\ UserIdle /\ SystemsIdle /\ LockIdle /\ JobsIdle

SpecBooking == InitBooking /\ [][BookingNext]_vars

InitRequest ==
    BookingRequestInit /\ RepairIdle /\ SingleIdle /\ LookupIdle /\ SheetIdle
    /\ BookingIdle /\ ConnectionIdle /\ CatalogueIdle /\ BookableIdle
    /\ ExperienceIdle /\ UserIdle /\ SystemsIdle /\ LockIdle /\ JobsIdle

SpecRequest == InitRequest /\ [][RequestNext]_vars

InitConnection ==
    ConnectionInit /\ RepairIdle /\ SingleIdle /\ LookupIdle /\ SheetIdle
    /\ BookingIdle /\ BookingRequestIdle /\ CatalogueIdle /\ BookableIdle
    /\ ExperienceIdle /\ UserIdle /\ SystemsIdle /\ LockIdle /\ JobsIdle

SpecConnection == InitConnection /\ [][ConnectionNext]_vars

InitCatalogue ==
    CatalogueInit /\ RepairIdle /\ SingleIdle /\ LookupIdle /\ SheetIdle
    /\ BookingIdle /\ BookingRequestIdle /\ ConnectionIdle /\ BookableIdle
    /\ ExperienceIdle /\ UserIdle /\ SystemsIdle /\ LockIdle /\ JobsIdle

SpecCatalogue == InitCatalogue /\ [][CatalogueNext]_vars

InitBookable ==
    BookableInit /\ RepairIdle /\ SingleIdle /\ LookupIdle /\ SheetIdle
    /\ BookingIdle /\ BookingRequestIdle /\ ConnectionIdle /\ CatalogueIdle
    /\ ExperienceIdle /\ UserIdle /\ SystemsIdle /\ LockIdle /\ JobsIdle

SpecBookable == InitBookable /\ [][BookableNext]_vars

InitExperience ==
    ExperienceInit /\ RepairIdle /\ SingleIdle /\ LookupIdle /\ SheetIdle
    /\ BookingIdle /\ BookingRequestIdle /\ ConnectionIdle /\ CatalogueIdle
    /\ BookableIdle /\ UserIdle /\ SystemsIdle /\ LockIdle /\ JobsIdle

SpecExperience == InitExperience /\ [][ExperienceNext]_vars

InitUser ==
    UserInit /\ RepairIdle /\ SingleIdle /\ LookupIdle /\ SheetIdle
    /\ BookingIdle /\ BookingRequestIdle /\ ConnectionIdle /\ CatalogueIdle
    /\ BookableIdle /\ ExperienceIdle /\ SystemsIdle /\ LockIdle /\ JobsIdle

SpecUser == InitUser /\ [][UserNext]_vars

InitSystems ==
    SystemsInit /\ RepairIdle /\ SingleIdle /\ LookupIdle /\ SheetIdle
    /\ BookingIdle /\ BookingRequestIdle /\ ConnectionIdle /\ CatalogueIdle
    /\ BookableIdle /\ ExperienceIdle /\ UserIdle /\ LockIdle /\ JobsIdle

SpecSystems == InitSystems /\ [][SystemsNext]_vars

InitLock ==
    LockInit /\ RepairIdle /\ SingleIdle /\ LookupIdle /\ SheetIdle
    /\ BookingIdle /\ BookingRequestIdle /\ ConnectionIdle /\ CatalogueIdle
    /\ BookableIdle /\ ExperienceIdle /\ UserIdle /\ SystemsIdle /\ JobsIdle

SpecLock == InitLock /\ [][LockNext]_vars

InitJobs ==
    JobsInit /\ RepairIdle /\ SingleIdle /\ LookupIdle /\ SheetIdle
    /\ BookingIdle /\ BookingRequestIdle /\ ConnectionIdle /\ CatalogueIdle
    /\ BookableIdle /\ ExperienceIdle /\ UserIdle /\ SystemsIdle /\ LockIdle

SpecJobs == InitJobs /\ [][JobsNext]_vars

(***************************************************************************)
(* Claims about the Quoting Repair                                         *)
(***************************************************************************)
\* C6: the Quoting Repair is idempotent: on every response whose lines are
\* comma-separated quoted strings, bare booleans and bare digit runs, the
\* text repaired twice equals the text repaired once.
C6_RepairIdempotent ==
    Len(repaired) >= 2 => repaired[2] = repaired[1]

\* C7: after the repair, dropping the first and the last quote of the data
\* line and splitting it on "," (quote, comma, quote) yields exactly the N
\* fields the server sent, each with its original content (letter case of
\* the booleans aside).
C7_RepairedLineSplitsIntoFields ==
    qr_split =>
        /\ Len(qr_values) = 1
        /\ Len(qr_values[1]) = Len(qr_fields)
        /\ \A i \in 1..Len(qr_fields) :
              Lower(qr_values[1][i]) = Lower(qr_fields[i].content)

(***************************************************************************)
(* Claims about dict_from_single_response                                  *)
(***************************************************************************)
\* the text handed to the parser is the response the server composed
SingleTextGiven == sr_text = SingleText(sr_header, sr_data, sr_nlines)

\* the value process_response_values is to make of a field the server sent
ExpectedValue(f) ==
    IF f.content = <<"t","r","u","e">> THEN PyTrue
    ELSE IF f.content = <<"f","a","l","s","e">> THEN PyFalse
    ELSE f.content

\* the header names of the first n positions are pairwise different
DistinctNames(n) ==
    \A i, j \in 1..n : sr_header[i] = sr_header[j] => i = j

\* the record pairs header[i] with data[i] for exactly the first n positions
PairsFirst(n) ==
    /\ DOMAIN parsed = {sr_header[i] : i \in 1..n}
    /\ \A i \in 1..n : parsed[sr_header[i]] = ExpectedValue(sr_data[i])

\* C8: in strict mode (graceful=False) dict_from_single_response fails and
\* returns no record whenever the text has not exactly two lines or its
\* header and data lines have different numbers of fields.
C8_StrictModeRejectsMismatch ==
    ( /\ sr_outcome /= "pending"
      /\ ~graceful
      /\ SingleTextGiven
      /\ (sr_nlines /= 2 \/ Len(sr_header) /= Len(sr_data)) )
    => (sr_outcome = "ValueError" /\ parsed = NoDict)

\* C8 witness: a strict call on a two-line text with different field counts,
\* and it has failed.
C8_Witness ==
    /\ ~graceful
    /\ SingleTextGiven
    /\ sr_nlines = 2
    /\ Len(sr_header) /= Len(sr_data)
    /\ sr_outcome = "ValueError"

\* C9 as stated: in lenient mode, for every two-line text with h header
\* fields and d data fields, h /= d, the call returns the record that pairs
\* header[i] with data[i] for exactly the first min(h, d) positions.
C9_LenientTruncatesAsStated ==
    ( /\ sr_outcome /= "pending"
      /\ graceful
      /\ SingleTextGiven
      /\ sr_nlines = 2
      /\ Len(sr_header) /= Len(sr_data) )
    => ( /\ sr_outcome = "returned"
         /\ PairsFirst(Min(Len(sr_header), Len(sr_data))) )

\* C9 amended: the same, for texts whose first min(h, d) header names are
\* pairwise different (data[i] being the value with its quotes stripped and
\* true/false turned into booleans).
C9_LenientTruncates ==
    ( /\ sr_outcome /= "pending"
      /\ graceful
      /\ SingleTextGiven
      /\ sr_nlines = 2
      /\ Len(sr_header) /= Len(sr_data)
      /\ DistinctNames(Min(Len(sr_header), Len(sr_data))) )
    => ( /\ sr_outcome = "returned"
         /\ PairsFirst(Min(Len(sr_header), Len(sr_data))) )

\* C9 witness: a lenient call returned for a header of three names and a
\* data line of two fields, the first two names being different.
C9_Witness ==
    /\ graceful
    /\ SingleTextGiven
    /\ sr_nlines = 2
    /\ Len(sr_header) = 3
    /\ Len(sr_data) = 2
    /\ DistinctNames(2)
    /\ sr_outcome = "returned"
    /\ DOMAIN parsed = {sr_header[1], sr_header[2]}

\* C10: for a response without a data line or with an empty one, the parser
\* does not raise in either mode and yields the empty/absent result, not a
\* record with values.
C10_EmptyDataLineIsAbsent ==
    ( /\ sr_outcome /= "pending"
      /\ SingleTextGiven
      /\ (sr_nlines <= 1 \/ WireLine(sr_data) = <<>>) )
    => (sr_outcome = "returned" /\ parsed = NoDict)

\* C11: for a two-line response with as many data fields as header names,
\* the names pairwise different, the record maps the i-th name as sent to
\* the i-th value without its quotes, true/false as booleans; parsing the
\* text again gives an equal record
C11_ZipsHeaderToProcessedData ==
    ( /\ sr_outcome /= "pending"
      /\ SingleTextGiven
      /\ sr_nlines = 2
      /\ Len(sr_header) = Len(sr_data)
      /\ DistinctNames(Len(sr_header)) )
    => ( /\ sr_outcome = "returned"
         /\ PairsFirst(Len(sr_header))
         /\ DictFromSingleResponse(sr_text, graceful).parsed = parsed )

\* C11 witness: a call returned the record of two names, one for a bare
\* true and one for a quoted false
C11_Witness ==
    /\ SingleTextGiven
    /\ sr_nlines = 2
    /\ sr_header = << <<"k">>, <<"j">> >>
    /\ sr_data = << [kind |-> "bare", content |-> <<"t","r","u","e">>],
                    [kind |-> "quoted", content |-> <<"f","a","l","s","e">>] >>
    /\ sr_outcome = "returned"
    /\ parsed = (<<"k">> :> PyTrue) @@ (<<"j">> :> PyFalse)

(***************************************************************************)
(* Claims about the lookup of a user by full name                          *)
(***************************************************************************)
\* some known user has the searched name as ppms_fullname
SomePpmsMatch ==
    \E i \in 1..Len(lk_users) : lk_users[i].ppms_fullname = user_fullname

\* some known user has the searched name as display fullname
SomeFullnameMatch ==
    \E i \in 1..Len(lk_users) : Fullname(lk_users[i]) = user_fullname

\* C3: ppms_fullname before fullname: if some user's ppms_fullname equals
\* the name, a user matching by ppms_fullname is returned; a user matching
\* only by its display fullname (also one whose ppms_fullname is set but
\* different) is returned when no user matches by ppms_fullname; if neither
\* matches, None is returned.
C3_PpmsFullnameBeforeFullname ==
    lk_called =>
        /\ SomePpmsMatch => lk_user.ppms_fullname = user_fullname
        /\ (~SomePpmsMatch /\ SomeFullnameMatch) =>
              (lk_user /= NoneUser /\ Fullname(lk_user) = user_fullname)
        /\ (~SomePpmsMatch /\ ~SomeFullnameMatch) => lk_user = NoneUser

(***************************************************************************)
(* Claims about get_running_sheet                                          *)
(***************************************************************************)
\* the row names a system of the cached list
SystemKnown(row) == \E i \in 1..Len(systems) : systems[i].name = row.object

\* the row names a user of the database or of PPMS
UserKnown(row) ==
    \/ /\ mysql_connection /= PyNone
       /\ \E i \in 1..Len(db_users) :
             row.user \in {db_users[i].fullname, db_users[i].ppms_fullname}
    \/ \E i \in 1..Len(rs_users) :
          row.user \in {rs_users[i].ppms_fullname, Fullname(rs_users[i])}

\* the system the row names is in the machine catalogue
InCatalogue(row) ==
    \E i \in 1..Len(CatalogueNames) :
        Contains(Lower(row.object), Lower(CatalogueNames[i]))

RowNumbers == 1..Len(rs_rows)

\* C1: when some row of the response names no known system (and every row
\* names a known user), the call returns normally, its result has no
\* Reservation for the rows without a system and has one for every row
\* whose system and user resolve
C1_UnknownSystemRowExcluded ==
    (/\ rs_outcome /= "pending"
     /\ \E i \in RowNumbers : ~SystemKnown(rs_rows[i])
     /\ \A i \in RowNumbers : UserKnown(rs_rows[i]))
        => /\ rs_outcome = "returned"
           /\ Len(reservation_array)
                 <= Cardinality({i \in RowNumbers : SystemKnown(rs_rows[i])})
           /\ Len(reservation_array)
                 >= Cardinality({i \in RowNumbers :
                                    /\ SystemKnown(rs_rows[i])
                                    /\ InCatalogue(rs_rows[i])})

\* C2: when some row of the response names no known user (and every row
\* names a known system), the row is skipped: the call returns normally
\* and its result has the Reservations of the rows that resolve
C2_UnknownUserRowSkipped ==
    (/\ rs_outcome /= "pending"
     /\ \E i \in RowNumbers : ~UserKnown(rs_rows[i])
     /\ \A i \in RowNumbers : SystemKnown(rs_rows[i]))
        => /\ rs_outcome = "returned"
           /\ Len(reservation_array)
                 <= Cardinality({i \in RowNumbers : UserKnown(rs_rows[i])})
           /\ Len(reservation_array)
                 >= Cardinality({i \in RowNumbers :
                                    /\ UserKnown(rs_rows[i])
                                    /\ InCatalogue(rs_rows[i])})

\* the row is not dropped by the vamp_only filter
PassesFilter(row) == ~vamp_only \/ InCatalogue(row)

\* the rows of the response that the returned Reservations were built from
BuiltRows == SelectSeq(rs_rows, PassesFilter)

\* C4: a Reservation built on date D starts on D at the Start time of its
\* row; it ends on D+1 at 00:00 when the End time is 00:00 and on D at the
\* End time otherwise
C4_EndRollsOverAtMidnightOnly ==
    rs_outcome = "returned" =>
        /\ Len(reservation_array) = Len(BuiltRows)
        /\ \A i \in 1..Len(reservation_array) :
              LET c == BuiltRows[i].clock
                  r == reservation_array[i]
              IN  /\ r.reservation_start = Datetime(date.day, c.sh, c.sm, 0, 0)
                  /\ r.reservation_end =
                        IF c.eh = 0 /\ c.em = 0
                        THEN Datetime(date.day + 1, 0, 0, 0, 0)
                        ELSE Datetime(date.day, c.eh, c.em, 0, 0)

\* a call that returned a Reservation ending at midnight of the next day and
\* one ending on the day itself
C4_Witness ==
    /\ rs_outcome = "returned"
    /\ \E i, j \in 1..Len(reservation_array) :
          /\ reservation_array[i].reservation_end.day = date.day + 1
          /\ reservation_array[j].reservation_end.day = date.day
          /\ BuiltRows[i].clock = EveningToMidnight

\* C14: given an empty running-sheet response body, get_running_sheet
\* returns an empty sequence without error and without resolving any system
\* or user: no pass of the loop begins and the table of users is left alone
C14_EmptyBodyReturnsEmpty ==
    (rs_outcome /= "pending" /\ rs_text = <<>>)
    => /\ rs_outcome = "returned"
       /\ reservation_array = <<>>
       /\ rs_passes = 0
       /\ db_users = IF mysql_connection = PyNone THEN <<>> ELSE StoredUsers

\* a call on the empty body, with the filter on and a database, that returned
C14_Witness ==
    /\ rs_text = <<>>
    /\ vamp_only
    /\ mysql_connection = Connected
    /\ rs_outcome = "returned"
    /\ reservation_array = <<>>

\* the id of the system the row names
RowSystemId(row) ==
    systems[CHOOSE i \in 1..Len(systems) : systems[i].name = row.object].system_id

\* the user names of the users the row can stand for
RowUsernames(row) ==
    { db_users[i].username : i \in { k \in 1..Len(db_users) :
          row.user \in {db_users[k].fullname, db_users[k].ppms_fullname} } }
    \cup { rs_users[i].username : i \in { k \in 1..Len(rs_users) :
          row.user \in {rs_users[k].ppms_fullname, Fullname(rs_users[k])} } }

\* the reservation r was built from the row
FromRow(r, row) ==
    /\ SystemKnown(row)
    /\ r.ppms_system = RowSystemId(row)
    /\ r.username \in RowUsernames(row)
    /\ r.reservation_start = Datetime(date.day, row.clock.sh, row.clock.sm, 0, 0)
    /\ r.reservation_end.hour = row.clock.eh
    /\ r.reservation_end.minute = row.clock.em

\* C15: the Reservations returned are in the order of their rows in the
\* response (not sorted by time), each comes from one data row of its own,
\* and the result is not longer than the number of data rows
C15_RowOrderPreserved ==
    rs_outcome = "returned" =>
        /\ Len(reservation_array) <= Len(rs_rows)
        /\ \E f \in [1..Len(reservation_array) -> RowNumbers] :
              /\ \A i, j \in 1..Len(reservation_array) : i < j => f[i] < f[j]
              /\ \A i \in 1..Len(reservation_array) :
                    FromRow(reservation_array[i], rs_rows[f[i]])

\* a call that returned the evening reservation of the first row before the
\* morning reservation of the second row
C15_Witness ==
    /\ rs_outcome = "returned"
    /\ Len(rs_rows) = 2
    /\ rs_rows[1].clock = EveningToMidnight
    /\ rs_rows[2].clock = MorningToNoon
    /\ Len(reservation_array) = 2
    /\ reservation_array[1].reservation_start.hour = 22
    /\ reservation_array[2].reservation_start.hour = 9

\* the row resolves: its system and its user exist
Resolves(row) == SystemKnown(row) /\ UserKnown(row)

\* some returned Reservation was built from the row
Returned(row) ==
    \E k \in 1..Len(reservation_array) : FromRow(reservation_array[k], row)

\* C16: with vamp_only set, every returned Reservation has a machine
\* catalogue and every row that resolves and whose system has a machine
\* catalogue is returned; with vamp_only unset no row is dropped because of
\* its machine catalogue
C16_RestrictFlagFiltersByCatalogue ==
    (rs_outcome /= "pending" /\ rs_text = SheetText(rs_rows))
    => /\ vamp_only =>
            /\ \A k \in 1..Len(reservation_array) :
                  reservation_array[k].machine_catalogue /= PyNone
            /\ \A i \in RowNumbers :
                  (Resolves(rs_rows[i]) /\ InCatalogue(rs_rows[i]))
                      => Returned(rs_rows[i])
       /\ (~vamp_only /\ rs_outcome = "returned")
            => \A i \in RowNumbers : Returned(rs_rows[i])

(***************************************************************************)
(* Claims about PpmsBooking.from_runningsheet                              *)
(***************************************************************************)
\* C5: a booking built from a row starts on the reference date at the Start
\* time and ends at the End time, on the reference date plus one day when
\* the End time is 00:00 and on the reference date otherwise
C5_BookingEndRollsOver ==
    bk_outcome = "returned" =>
        /\ bk_booking.starttime.day = bk_date.day
        /\ bk_booking.endtime.day =
              IF bk_entry[KeyEndTime] = <<"0","0",":","0","0">>
              THEN bk_date.day + 1 ELSE bk_date.day

(***************************************************************************)
(* Claims about PpmsBooking.from_booking_request                           *)
(***************************************************************************)
\* the response has the three lines username, integer minutes, session, the
\* arguments are as documented and the clock shows one minute during the call
ThreeLineRequest ==
    /\ bq_nlines = 3
    /\ bq_offset.integer
    /\ bq_text = RequestText(bq_offset, 3)
    /\ booking_type \in {"get", "next"}
    /\ IsInt(bq_system_id)
    /\ ZeroSeconds(bq_later) = ZeroSeconds(bq_now)

C13_EmptyTextIsNoBooking ==
    (bq_outcome /= "pending" /\ bq_text = <<>>
        /\ booking_type \in {"get", "next"})
    => (bq_outcome = "returned" /\ bq_booking = NoneBooking)

(***************************************************************************)
(* Claims about PpmsConnection                                             *)
(***************************************************************************)
\* C17: request fails with a connection error exactly when the body of the
\* response has 'request not authorized' in any letter case; otherwise it
\* returns the response with the body unchanged; each call posts the
\* request once
C17_RequestFailsIffNotAuthorized ==
    /\ cn_posts = cn_calls
    /\ cn_calls > 0 =>
          /\ cn_outcome = "ConnectionError" <=> cn_answer.denied
          /\ ~cn_answer.denied =>
                /\ cn_outcome = "returned"
                /\ cn_response.text = cn_answer.text

\* a second call that was denied in capital letters after a first call
C17_Witness ==
    /\ cn_calls = 2
    /\ cn_answer.denied
    /\ ~Contains(cn_answer.text, NotAuthorized)
    /\ cn_outcome = "ConnectionError"

\* C18: a PpmsConnection is constructed only after a successful
\* authentication: the constructor raises ConnectionError when the text of
\* the auth response has 'request not authorized' or 'error' in any letter
\* case or the HTTP status is not OK, and completes when none of these holds;
\* requests are made on a constructed object only
C18_ConstructedOnlyWhenAuthenticated ==
    /\ cn_object /= "pending" =>
          IF cn_auth.denied \/ cn_auth.error \/ cn_status /= 200
          THEN cn_object = "ConnectionError"
          ELSE cn_object = "constructed"
    /\ cn_calls > 0 =>
          /\ cn_object = "constructed"
          /\ ~cn_auth.denied /\ ~cn_auth.error /\ cn_status = 200

\* a constructor that raised on 'Some Errors' with status 200
C18_Witness ==
    /\ cn_auth.error /\ ~cn_auth.denied
    /\ ~Contains(cn_auth.text, ErrorWord)
    /\ cn_status = 200
    /\ cn_object = "ConnectionError"

(***************************************************************************)
(* Claims about the machine catalogue of a system                          *)
(***************************************************************************)
\* the fixed ordered list of tokens, in lower case
TokensLowered ==
    << <<"n","a","b","o","o">>, <<"d","a","g","o","b","a","h">>, <<"t","a","t","o","o","i","n","e">>, <<"h","o","t","h">> >>

\* the places in the list of the tokens that occur in the name, letter case
\* ignored
TokensIn(name) ==
    { k \in 1..Len(TokensLowered) :
        \E p \in 1..Len(name) : HasPrefixAt(Lower(name), p, TokensLowered[k]) }

\* the place in the name where the k-th token first occurs
FirstPlace(name, k) ==
    CHOOSE p \in 1..Len(name) :
        /\ HasPrefixAt(Lower(name), p, TokensLowered[k])
        /\ \A r \in 1..(p - 1) : ~HasPrefixAt(Lower(name), r, TokensLowered[k])

\* C19: the machine_catalogue of a system is the first token of the list
\* (Naboo, Dagobah, Tatooine, Hoth) that occurs in the name of the system,
\* letter case ignored, and null when none occurs; of several tokens in the
\* name the one earliest in the list is taken, not the one earliest in the
\* name
C19_FirstTokenOfTheListWins ==
    mc_done =>
        /\ mc_system.name = mc_name
        /\ TokensIn(mc_name) = {} => mc_system.machine_catalogue = PyNone
        /\ \A k \in TokensIn(mc_name) :
              (\A j \in TokensIn(mc_name) : k <= j)
                  => /\ mc_system.machine_catalogue /= PyNone
                     /\ Lower(mc_system.machine_catalogue) = TokensLowered[k]
                     /\ mc_system.machine_catalogue \in
                           { <<"N","a","b","o","o">>,
                             <<"D","a","g","o","b","a","h">>,
                             <<"T","a","t","o","o","i","n","e">>,
                             <<"H","o","t","h">> }

\* a system named after Hoth and then Naboo, in small letters: Naboo
C19_Witness ==
    /\ mc_done
    /\ TokensIn(mc_name) = {1, 4}
    /\ FirstPlace(mc_name, 4) < FirstPlace(mc_name, 1)
    /\ mc_name /= <<"H","o","t","h","N","a","b","o","o">>
    /\ mc_system.machine_catalogue = <<"N","a","b","o","o">>

(***************************************************************************)
(* Claims about get_bookable_ids                                           *)
(***************************************************************************)
\* the systems whose localisation contains the given string
AtLocation ==
    { i \in 1..Len(bi_systems) : LocationMatches(bi_systems[i], localisation) }

\* the systems whose name contains at least one entry of name_contains
WithValidName ==
    { i \in 1..Len(bi_systems) :
        \E k \in 1..Len(name_contains) :
            Contains(bi_systems[i].name, name_contains[k]) }

\* C20: get_bookable_ids returns, each at most once, the ids of the systems
\* whose localisation contains the given string and whose name contains at
\* least one entry of name_contains; with the empty list for name_contains
\* the name filter is skipped and the ids of all systems with a matching
\* localisation are returned
C20_EmptyNameListSkipsFilter ==
    bi_done =>
        /\ \A i, j \in 1..Len(system_ids) :
              i /= j => system_ids[i] /= system_ids[j]
        /\ { system_ids[i] : i \in 1..Len(system_ids) }
              = { bi_systems[i].id :
                    i \in IF name_contains = <<>> THEN AtLocation
                          ELSE AtLocation \cap WithValidName }

(***************************************************************************)
(* Claims about get_user_experience                                        *)
(***************************************************************************)
\* the names of the header, in order
ExperienceKeys == <<KeyLogin, KeyId>>

\* every line has at least as many fields as the header has names
NoShortLine == \A i \in 1..Len(xp_rows) : Len(xp_rows[i]) >= Len(ExperienceKeys)

\* the value the field stands for: a number, null or the string itself
TypedOnce(f) ==
    IF f.looks = "number" THEN <<"<float>">> \o f.plain
    ELSE IF f.looks = "n/a" THEN PyNone
    ELSE f.plain

\* C21: in the multi-record parse without Quoting Repair every value of
\* every row is typed by one rule: a numeric-looking value becomes a number,
\* the literal token n/a becomes null, and every other value, also one that
\* has n/a inside longer text, stays the original string
C21_ValuesTypedByOneRule ==
    (xp_outcome = "returned" /\ xp_text = ExperienceText(xp_rows))
    => /\ Len(experience_array) = Len(xp_rows)
       /\ \A i \in 1..Len(experience_array) :
             \A k \in 1..Len(ExperienceKeys) :
                experience_array[i][ExperienceKeys[k]] = TypedOnce(xp_rows[i][k])

\* C22: the multi-record parse is tolerant of length mismatches: for every
\* header line and every sequence of data lines, also lines with fewer or
\* more fields than the header, the call completes without raising and has
\* a record for every line that can be zipped against the header
C22_TolerantOfLengthMismatch ==
    (xp_outcome /= "pending" /\ xp_text = ExperienceText(xp_rows))
    => /\ xp_outcome = "returned"
       /\ Len(experience_array)
             >= Cardinality({i \in 1..Len(xp_rows) :
                                Len(xp_rows[i]) >= Len(ExperienceKeys)})

\* the call was get_ppms_user on the response the server sends for the
\* reported login and names, and it returned a user
UserReturned ==
    /\ us_call = "get_ppms_user"
    /\ us_outcome = "returned"
    /\ us_text = UserText(us_login, us_last, us_first)

\* C23: a user built from a getuser response with first name F and last
\* name L has the fullname "F L" and the ppms_fullname "L F", and the two
\* are equal only when F equals L.
C23_FullnamesInOrder ==
    UserReturned =>
        /\ Fullname(us_user) = us_first \o <<" ">> \o us_last
        /\ us_user.ppms_fullname = us_last \o <<" ">> \o us_first
        /\ (Fullname(us_user) = us_user.ppms_fullname => us_first = us_last)

\* C24: constructing a User with the username empty or None fails and
\* leaves no object, every User that exists has a username that is neither
\* empty nor None, and no step changes the username of an existing User.
C24_UsernameMandatoryAndFixed ==
    [][ /\ (us_call' = "User" /\ us_username \in {PyNone, <<>>}
               => us_outcome' = "AssertionError" /\ us_user' = NoneUser)
        /\ (us_user' /= NoneUser => us_user'.username \notin {PyNone, <<>>})
        /\ (us_user /= NoneUser
               => us_user' /= NoneUser /\ us_user'.username = us_user.username)
      ]_vars

\* a construction with an empty or missing username was refused
C24_Witness_Refused ==
    /\ us_call = "User"
    /\ us_username \in {PyNone, <<>>}
    /\ us_outcome = "AssertionError"

\* C25: the fullname read from a User constructed with the fullname empty
\* or None is its username, and otherwise the fullname given.
C25_FullnameFallsBackWhenBlank ==
    us_call = "User" /\ us_read = "fullname" =>
        us_value = IF us_fullname \in {PyNone, <<>>}
                   THEN us_user.username ELSE us_fullname

\* C26: in every call of get_systems a getsystems request is sent exactly
\* when the cache is unset or use_cached is false; a call that returns
\* leaves the returned list in the cache, a call that raises leaves the
\* cache as it was, and a call with use_cached on a set cache returns the
\* cached list.
C26_ReadThroughCache ==
    [][ gs_calls' = gs_calls + 1 =>
          /\ (gs_requests' = gs_requests + 1)
                 <=> (gs_systems = NoneSystems \/ ~use_cached')
          /\ gs_requests' \in {gs_requests, gs_requests + 1}
          /\ (gs_outcome' = "returned" => gs_systems' = gs_returned')
          /\ (gs_outcome' /= "returned" => gs_systems' = gs_systems)
          /\ (gs_systems /= NoneSystems /\ use_cached'
                 => gs_outcome' = "returned" /\ gs_returned' = gs_systems)
      ]_vars

\* a call answered from the cache after a call that filled it and a call
\* that raised
C26_Witness_ServedFromCache ==
    /\ gs_calls = 3
    /\ gs_requests = 2
    /\ use_cached
    /\ gs_outcome = "returned"
    /\ Len(gs_returned) = 2
    /\ gs_answer = NotAuthorized

\* process p has run is_process_running while the other process had not
\* taken a step
RanAlone(p) ==
    /\ lp_running[p] /= "unknown"
    /\ lp_pc[p] \in {"returned", "ended"}
    /\ lp_created[p] = "no"
    /\ \A q \in Procs \ {p} : lp_pc[q] = "start"

\* is_process_running run alone returns True or False, and True only when
\* the lock file holds the PID of a running process or a PID that cannot
\* be parsed
RunningResultAsStated ==
    \A p \in Procs :
        RanAlone(p) =>
            /\ lp_running[p] \in {"True", "False"}
            /\ lp_running[p] = "True" =>
                    /\ lock_file /= NoFile
                    /\ LET pid == ParsePid(ReadLine(lock_file))
                       IN  ~pid.parsed \/ pid.pid \in Pids(lp_pc)

\* C27: whenever is_process_running has returned False the lock file does
\* not exist, and when it has returned True the file is in place.
C27_FalseLeavesNoLockFile ==
    \A p \in Procs :
        RanAlone(p) =>
            /\ lp_running[p] = "False" => lock_file = NoFile
            /\ lp_running[p] = "True" => lock_file /= NoFile

\* process p has completed create_lock_file without a RuntimeError and
\* has not ended
Created(p) == lp_pc[p] \in {"created", "removing"}

\* C29: at most one of the two processes has completed create_lock_file
\* without a RuntimeError, and the lock file holds the PID of that process.
C29_LockFileMutualExclusion ==
    /\ Cardinality({p \in Procs : Created(p)}) <= 1
    /\ \A p \in Procs : Created(p) => lock_file = StrOfInt(GetPid(p))

\* the rows as a set
RowSet(rows) == {rows[i] : i \in 1..Len(rows)}

\* the rows job_start has to delete: completed jobs of the task
CompletedOf(rows, task) ==
    {row \in RowSet(rows) : row.task = task /\ row.end_time > 0}

\* C28: job_start with remove_previous_tasks deletes exactly the completed
\* rows of its task and without it deletes nothing; it leaves every other
\* row as it was, inserts exactly one row, of its task, and returns the id
\* of that row; job_end changes only the end_time of the row with the given
\* id.
C28_JobsTableChanges ==
    [][ /\ jobs_call'.name = "job_start" /\ jobs_now' /= jobs_now =>
              LET deleted  == RowSet(jobs) \ RowSet(jobs')
                  inserted == RowSet(jobs') \ RowSet(jobs)
              IN  /\ deleted = IF jobs_call'.remove_previous_tasks
                               THEN CompletedOf(jobs, jobs_call'.task) ELSE {}
                  /\ Cardinality(inserted) = 1
                  /\ \A row \in inserted :
                        /\ row.id = identifier'
                        /\ row.task = jobs_call'.task
                        /\ \A old \in RowSet(jobs) : old.id /= row.id
                  /\ Len(jobs') = Len(jobs) - Cardinality(deleted) + 1
        /\ jobs_call'.name = "job_end" /\ jobs_now' /= jobs_now =>
              /\ Len(jobs') = Len(jobs)
              /\ \A i \in 1..Len(jobs) :
                    /\ jobs[i].id /= jobs_call'.identifier => jobs'[i] = jobs[i]
                    /\ [jobs'[i] EXCEPT !.end_time = 0]
                           = [jobs[i] EXCEPT !.end_time = 0]
      ]_vars

\* job_start has removed a completed job of its task and kept an
\* unfinished one of the same task and a completed one of the other task
C28_Witness_RemovedCompletedOnly ==
    /\ jobs_call.name = "job_start"
    /\ jobs_call.remove_previous_tasks
    /\ jobs_auto_increment = 5
    /\ Len(jobs) = 3
    /\ \E i \in 1..Len(jobs) :
          /\ jobs[i].task = jobs_call.task
          /\ jobs[i].id /= identifier
          /\ jobs[i].end_time = NullTime
    /\ \E i \in 1..Len(jobs) :
          jobs[i].task /= jobs_call.task /\ jobs[i].end_time > 0

\* the datetime a is earlier than b
Before(a, b) ==
    LET ka == <<a.day, a.hour, a.minute, a.second, a.microsecond>>
        kb == <<b.day, b.hour, b.minute, b.second, b.microsecond>>
    IN  \E k \in 1..5 : ka[k] < kb[k] /\ \A j \in 1..(k - 1) : ka[j] = kb[j]

\* the End time of the row is 00:00 or later in the day than its Start time
EndsAfterStart(c) ==
    (c.eh = 0 /\ c.em = 0) \/ 60 * c.eh + c.em > 60 * c.sh + c.sm

\* C30: every Reservation returned for a row whose End time is 00:00 or
\* later than its Start time starts before it ends, has second and
\* microsecond 0 in both times, and ends no later than the midnight that
\* follows the day of the date argument.
C30_ReservationStartsBeforeEnd ==
    rs_outcome = "returned" =>
        /\ Len(reservation_array) = Len(BuiltRows)
        /\ \A i \in 1..Len(reservation_array) :
              LET r == reservation_array[i]
              IN  EndsAfterStart(BuiltRows[i].clock) =>
                    /\ Before(r.reservation_start, r.reservation_end)
                    /\ r.reservation_start.second = 0
                    /\ r.reservation_start.microsecond = 0
                    /\ r.reservation_end.second = 0
                    /\ r.reservation_end.microsecond = 0
                    /\ ~Before(Datetime(date.day + 1, 0, 0, 0, 0),
                               r.reservation_end)

\* a call on a date with seconds that returned a Reservation from midnight
\* to half past and one that ends at the next midnight
C30_Witness_MidnightAtBothEnds ==
    /\ rs_outcome = "returned"
    /\ date.second > 0
    /\ \E i, j \in 1..Len(reservation_array) :
          /\ BuiltRows[i].clock = MidnightToHalf
          /\ reservation_array[i].reservation_start.hour = 0
          /\ BuiltRows[j].clock = EveningToMidnight
          /\ reservation_array[j].reservation_end
                = Datetime(date.day + 1, 0, 0, 0, 0)

====
